---- MODULE Spec2Model ----
(***************************************************************************)
(* Timing arithmetic (TimeUtils), the per-IP rate limiter (RateLimiter)   *)
(* and the chunked BLE send queue (BLEKeyboardManager::SendQueue) of the   *)
(* MiniKeyboard firmware.                                                  *)
(*                                                                         *)
(* The hardware clock millis() is an unsigned counter that wraps.  The     *)
(* model keeps the wrapping arithmetic and scales the range down: the      *)
(* counter wraps at Modulus instead of 2^32, and the durations are a few   *)
(* ticks long.  Next to each wrapping timestamp the model keeps a ghost    *)
(* variable with the true (non-wrapping) time that has passed, which the   *)
(* program cannot see and the properties are stated against.               *)
(***************************************************************************)
EXTENDS Integers, Sequences, FiniteSets, TLC

(***************************************************************************)
(* Bounds of the model.                                                    *)
(***************************************************************************)
\* Rate limiter windows the constructor is given: 1 .. MaxWindow ticks.
MaxWindow == 2

\* Ticks by which the range of the clock exceeds ten of the longest windows
\* (with it, a record thirty ticks old is still told from a new one).
ClockSlack == 12

\* The clock counts 0 .. Modulus-1 and then wraps (2^32 in the firmware, where
\* ten windows of Config::RateLimit::WINDOW_MS are far below the range).
Modulus == 10 * MaxWindow + ClockSlack

\* Rate limiter request limits the constructor is given: 1 .. MaxRequests.
MaxRequests == 2

\* requestCount and maxRequests are both uint8_t (0 .. 255 in the firmware); the
\* model's counter holds 0 .. MaxRequests, so the largest limit is the largest
\* value the counter can hold, and one increment more wraps it to 0.
CounterRange == MaxRequests + 1

Instants == 0 .. (Modulus - 1)

\* Half of the counter's range, 2^(W-1) in the firmware.
HalfRange == Modulus \div 2

\* Ghost ages count true elapsed ticks and saturate here, past one full wrap.
AgeCap == Modulus + MaxWindow + 1

\* The rate limiter is followed from boot until the clock has wrapped once.
MaxUptime == Modulus + MaxWindow + 1

\* Two clients are followed from boot for this many ticks.
IsoHorizon == 12

\* Config::BLE::CHUNK_DELAY_MS in ticks of the scaled clock (100 ms in the firmware).
CHUNK_DELAY_MS == 2

\* Config::BLE::MAX_MESSAGE_LENGTH scaled down (1000 characters in the firmware).
MAX_MESSAGE_LENGTH == 9

\* Config::BLE::TEXT_CHUNK_SIZE, characters per chunk.
TEXT_CHUNK_SIZE == 4

\* The send queue is followed for this many ticks.
SQHorizon == 4 * CHUNK_DELAY_MS + 2

Min(a, b) == IF a < b THEN a ELSE b

Bump(a) == Min(a + 1, AgeCap)

\* Unsigned subtraction at the width of the clock.
USub(a, b) == ((a - b) + Modulus) % Modulus

VARIABLES
    millis,        \* the value millis() returns
    tStart,        \* TimeUtils: the start timestamp under test
    tInterval,     \* TimeUtils: the interval under test
    tElapsed,      \* ghost: true ticks since tStart was taken
    windowMs,      \* RateLimiter::windowMs
    maxRequests,   \* RateLimiter::maxRequests
    clients,       \* RateLimiter::clients, a map from uint32_t to ClientInfo
    lastCleanup,   \* RateLimiter::lastCleanup
    uptime,        \* ghost: true ticks since boot
    startAt,       \* ghost: per IP, the uptime at which its record's window began
    fresh,         \* ghost: per IP, the first window of a record made by insertion
    admitLog,      \* ghost: per IP, the uptimes of its recent admitted calls
    everLog,       \* ghost: the same for the watched IPs, not emptied by reset()
    shadow,        \* ghost: the table of a second limiter that never sees NoisyIp
    shadowResult,  \* ghost: what the second limiter returned for the last call
    sweptAt,       \* ghost: the uptime of construction or of the last sweep of cleanup()
    sendQueue,     \* BLEKeyboardManager::sendQueue
    connected,     \* what keyboard.isConnected() returns
    sqAge,         \* ghost: true ticks since sendQueue.lastSendTime was set
    tx,            \* ghost: the payload in flight and what was transmitted of it
    lastOp,        \* ghost: the operation the last step performed
    lastArg,       \* ghost: its argument (for cleanup(), the keys it removed;
                   \*   for update(), the true ticks since the last chunk)
    lastResult,    \* ghost: its return value
    led,           \* LEDManager: manualState, flashingEnabled, flashState,
                   \*   lastFlashToggle, and the level written to the pin
    wifi,          \* WiFiManager::state
    radio,         \* whether WiFi.status() is WL_CONNECTED
    statics,       \* the static locals of loop() and of handleClient()
    ledGhost,      \* ghost: true ticks the radio has been down, true ticks
                   \*   since the pin changed or flashing began, whether
                   \*   loop() has run since the last tick, and true ticks
                   \*   since WiFiManager's connected flag went false
    msg,           \* Validation: the bytes of the message under test
    charIsSigned,  \* whether the build's plain char is a signed type
    iter           \* ghost: the state one loop iteration began in and the two
                   \*   operations it runs, in their order

timeVars == <<tStart, tInterval, tElapsed>>

rlVars == <<windowMs, maxRequests, clients, lastCleanup>>

rlGhost == <<uptime, startAt, fresh, admitLog, everLog, shadow, shadowResult,
            sweptAt>>

sqVars == <<sendQueue, connected>>

sqGhost == <<sqAge, tx>>

boardVars == <<led, wifi, radio, statics, ledGhost>>

valVars == <<msg, charIsSigned>>

iterVars == <<iter>>

ghostVars == <<lastOp, lastArg, lastResult>>

\* lastOp comes first: two states that differ in it are told apart by it.
vars == <<ghostVars, millis, timeVars, rlVars, rlGhost, sqVars, sqGhost, boardVars,
         valVars, iterVars>>

None == "none"

(***************************************************************************)
(* TimeUtils                                                               *)
(***************************************************************************)
\* A comparison of absolute timestamps, which breaks when the clock wraps.
hasElapsedAbsolute(start, interval) == millis >= start + interval

\* A strict comparison, which reports a zero interval as not yet elapsed.
hasElapsedStrict(start, interval) == USub(millis, start) > interval

hasElapsed(start, interval) == USub(millis, start) >= interval

\* A difference that is clamped at 0 instead of taken modulo the clock range.
timeDiffClamped(start, end) ==
    IF end = 0
    THEN (IF millis >= start THEN millis - start ELSE 0)
    ELSE (IF end >= start THEN end - start ELSE 0)

\* end = 0 is the default argument and means "read the clock".
timeDiff(start, end) == IF end = 0 THEN USub(millis, start) ELSE USub(end, start)

\* An inclusive comparison, which overlaps hasElapsed at the boundary.
withinWindowInclusive(timestamp, windowArg) == timeDiff(timestamp, 0) <= windowArg

withinWindow(timestamp, windowArg) == timeDiff(timestamp, 0) < windowArg

(***************************************************************************)
(* RateLimiter                                                             *)
(***************************************************************************)
\* The address whose calls the second (shadow) limiter never sees.
NoisyIp == <<10, 0, 1, 100>>

\* The address whose calls both limiters see.
QuietIp == <<10, 0, 1, 101>>

\* The client addresses that send requests.
IPs == {NoisyIp, QuietIp}

\* A conversion that drops the host octet, so that neighbours share a key.
ipToUint32Prefix(ip) == ip[1] * 65536 + ip[2] * 256 + ip[3]

\* The four octets packed into one 32-bit key.
ipToUint32(ip) == ip[1] * 16777216 + ip[2] * 65536 + ip[3] * 256 + ip[4]

ClientInfo(time, count) == [lastRequestTime |-> time, requestCount |-> count]

EmptyTable == [key \in {} |-> ClientInfo(0, 0)]

\* windowMs * 10 in 32-bit unsigned arithmetic.
TenWindows == (windowMs * 10) % Modulus

\* An expiry test on absolute timestamps, which never fires once the clock wrapped.
WindowExpiredAbsolute(info) == millis >= info.lastRequestTime + windowMs

\* An expiry test that keeps the window open at exactly windowMs.
WindowExpiredLate(info) == timeDiff(info.lastRequestTime, millis) > windowMs

WindowExpired(info) == timeDiff(info.lastRequestTime, millis) >= windowMs

\* A limit test that lets one request too many through.
LimitReachedLate(info) == info.requestCount > maxRequests

LimitReached(info) == info.requestCount >= maxRequests

\* Which return statement of checkLimit a call takes.
checkLimitBranch(table, key) ==
    IF key \notin DOMAIN table THEN "new"
    ELSE IF WindowExpired(table[key]) THEN "reset"
    ELSE IF LimitReached(table[key]) THEN "deny"
    ELSE "count"

checkLimitResult(table, key) == checkLimitBranch(table, key) # "deny"

\* A table update that admits without counting the request.
checkLimitTableUncounted(table, key) ==
    CASE checkLimitBranch(table, key) \in {"new", "reset"} ->
            [k \in DOMAIN table \cup {key} |->
                IF k = key THEN ClientInfo(millis, 1) ELSE table[k]]
      [] OTHER -> table

\* A table update in which a denied request moves the window start to now.
checkLimitTableDenyTouches(table, key) ==
    CASE checkLimitBranch(table, key) \in {"new", "reset"} ->
            [k \in DOMAIN table \cup {key} |->
                IF k = key THEN ClientInfo(millis, 1) ELSE table[k]]
      [] checkLimitBranch(table, key) = "count" ->
            [table EXCEPT ![key].requestCount = (@ + 1) % CounterRange]
      [] OTHER -> [table EXCEPT ![key].lastRequestTime = millis]

\* A table update that counts the denied requests as well.
checkLimitTableCountsDenied(table, key) ==
    CASE checkLimitBranch(table, key) \in {"new", "reset"} ->
            [k \in DOMAIN table \cup {key} |->
                IF k = key THEN ClientInfo(millis, 1) ELSE table[k]]
      [] OTHER -> [table EXCEPT ![key].requestCount = (@ + 1) % CounterRange]

\* A table update in which every admitted request moves the window start to
\* now (a sliding window).
checkLimitTableSlides(table, key) ==
    CASE checkLimitBranch(table, key) \in {"new", "reset"} ->
            [k \in DOMAIN table \cup {key} |->
                IF k = key THEN ClientInfo(millis, 1) ELSE table[k]]
      [] checkLimitBranch(table, key) = "count" ->
            [table EXCEPT ![key] =
                ClientInfo(millis, (@.requestCount + 1) % CounterRange)]
      [] OTHER -> table

\* A table update that counts an admitted request only while the send queue
\* is idle (a limiter that looks at the queue).
checkLimitTableWhileIdle(table, key) ==
    CASE checkLimitBranch(table, key) \in {"new", "reset"} ->
            [k \in DOMAIN table \cup {key} |->
                IF k = key THEN ClientInfo(millis, 1) ELSE table[k]]
      [] checkLimitBranch(table, key) = "count" /\ ~sendQueue.active ->
            [table EXCEPT ![key].requestCount = (@ + 1) % CounterRange]
      [] OTHER -> table

\* The table after the call; requestCount is a uint8_t.
checkLimitTable(table, key) ==
    CASE checkLimitBranch(table, key) \in {"new", "reset"} ->
            [k \in DOMAIN table \cup {key} |->
                IF k = key THEN ClientInfo(millis, 1) ELSE table[k]]
      [] checkLimitBranch(table, key) = "count" ->
            [table EXCEPT ![key].requestCount = (@ + 1) % CounterRange]
      [] OTHER -> table

\* A throttle of one window instead of ten.
cleanupThrottledOneWindow == ~hasElapsed(lastCleanup, windowMs)

\* cleanup() returns early until ten windows have passed since the last sweep.
cleanupThrottled == ~hasElapsed(lastCleanup, TenWindows)

\* A sweep that compares absolute timestamps, and so keeps for ever a record
\* made less than ten windows before the clock wraps.
cleanupTableAbsolute(table) ==
    [k \in {j \in DOMAIN table :
                ~(millis > table[j].lastRequestTime + TenWindows)}
        |-> table[k]]

\* The records a sweep keeps.
cleanupTable(table) ==
    [k \in {j \in DOMAIN table :
                ~(timeDiff(table[j].lastRequestTime, millis) > TenWindows)}
        |-> table[k]]

getTrackedClientCount == Cardinality(DOMAIN clients)

\* Ghost bookkeeping -------------------------------------------------------
NoWindow == 0 - 1

Stale == [at |-> NoWindow, n |-> 0]

Tracked(table, ip) == ipToUint32(ip) \in DOMAIN table

\* startAt after a step that leaves the table as newTable.
StartAtAfter(newTable, touched) ==
    [ip \in IPs |->
        IF ~Tracked(newTable, ip) THEN NoWindow
        ELSE IF ip \in touched THEN uptime
        ELSE startAt[ip]]

\* fresh with the records dropped that are no longer in newTable.
FreshAfter(newTable) ==
    [ip \in IPs |-> IF Tracked(newTable, ip) THEN fresh[ip] ELSE Stale]

RECURSIVE KeepRecent(_, _, _)
KeepRecent(log, now, span) ==
    IF log = <<>> THEN <<>>
    ELSE IF now - Head(log) > span THEN KeepRecent(Tail(log), now, span)
    ELSE <<Head(log)>> \o KeepRecent(Tail(log), now, span)

\* The number of admitted calls of ip at most span ticks back from now.
\* The last 2 * maxRequests + 1 entries of a log: enough to see the burst
\* bound exceeded.
LastFew(log) ==
    IF Len(log) <= 2 * maxRequests + 1 THEN log
    ELSE SubSeq(log, Len(log) - 2 * maxRequests, Len(log))

AdmitsWithin(ip, span) ==
    Cardinality({i \in 1 .. Len(admitLog[ip]) : uptime - admitLog[ip][i] <= span})

RLConstructed ==
    /\ clients = EmptyTable
    /\ lastCleanup = millis
    /\ uptime = 0
    /\ startAt = [ip \in IPs |-> NoWindow]
    /\ fresh = [ip \in IPs |-> Stale]
    /\ admitLog = [ip \in IPs |-> <<>>]
    /\ everLog = [ip \in {} |-> <<>>]
    /\ shadow = EmptyTable
    /\ shadowResult = None
    /\ sweptAt = 0

\* What a call of checkLimit does to the limiter and to its bookkeeping.
checkLimitEffect(ip) ==
    LET key == ipToUint32(ip)
        branch == checkLimitBranch(clients, key)
        newTable == checkLimitTable(clients, key)
        seen == Tracked(clients, ip)
    IN  /\ clients' = newTable
        /\ startAt' = StartAtAfter(newTable,
                                   IF branch \in {"new", "reset"} THEN {ip} ELSE {})
        /\ fresh' = [fresh EXCEPT ![ip] =
                        IF ~seen THEN [at |-> uptime, n |-> 1]
                        ELSE IF @.at = NoWindow THEN @
                        ELSE [@ EXCEPT !.n = Min(@ + 1, maxRequests + 2)]]
        /\ admitLog' = [admitLog EXCEPT ![ip] =
                        IF checkLimitResult(clients, key)
                        THEN Append(@, uptime) ELSE @]
        /\ everLog' = [w \in DOMAIN everLog |->
                        IF w = ip /\ checkLimitResult(clients, key)
                        THEN LastFew(Append(everLog[w], uptime))
                        ELSE everLog[w]]
        /\ shadow' = IF ip = NoisyIp THEN shadow ELSE checkLimitTable(shadow, key)
        /\ shadowResult' = IF ip = NoisyIp THEN None
                           ELSE checkLimitResult(shadow, key)
        /\ UNCHANGED <<millis, timeVars, windowMs, maxRequests, lastCleanup, uptime,
                       sweptAt, sqVars, sqGhost, boardVars, valVars, iterVars>>

checkLimit(ip) ==
    /\ checkLimitEffect(ip)
    /\ lastOp' = "checkLimit"
    /\ lastArg' = ip
    /\ lastResult' = checkLimitResult(clients, ipToUint32(ip))

\* What a call of cleanup() does to the limiter and to its bookkeeping.
cleanupEffect ==
    LET newTable == IF cleanupThrottled THEN clients ELSE cleanupTable(clients)
    IN  /\ clients' = newTable
        /\ lastCleanup' = IF cleanupThrottled THEN lastCleanup ELSE millis
        /\ startAt' = StartAtAfter(newTable, {})
        /\ fresh' = FreshAfter(newTable)
        /\ shadow' = IF cleanupThrottled THEN shadow ELSE cleanupTable(shadow)
        /\ shadowResult' = None
        /\ sweptAt' = IF cleanupThrottled THEN sweptAt ELSE uptime
        /\ UNCHANGED <<windowMs, maxRequests, uptime, admitLog, everLog>>

cleanup ==
    /\ cleanupEffect
    /\ lastOp' = "cleanup"
    /\ lastArg' = DOMAIN clients \ DOMAIN clients'
    /\ lastResult' = ~cleanupThrottled
    /\ UNCHANGED <<millis, timeVars, sqVars, sqGhost, boardVars, valVars, iterVars>>

\* The greatest request count held in the table, 0 for the empty table.
GreatestCount(table) ==
    IF DOMAIN table = {} THEN 0
    ELSE CHOOSE n \in {table[k].requestCount : k \in DOMAIN table} :
            \A k \in DOMAIN table : table[k].requestCount <= n

\* A clear that spares the clients that have used up their window.
clearSparesBlocked(table) ==
    [k \in {j \in DOMAIN table : table[j].requestCount >= maxRequests} |-> table[k]]

\* clients.clear()
clear(table) == EmptyTable

reset ==
    /\ clients' = clear(clients)
    /\ lastOp' = "reset"
    /\ lastArg' = GreatestCount(clients)
    /\ lastResult' = None
    /\ startAt' = StartAtAfter(EmptyTable, {})
    /\ fresh' = FreshAfter(EmptyTable)
    /\ admitLog' = [ip \in IPs |-> <<>>]
    /\ shadow' = EmptyTable
    /\ shadowResult' = None
    /\ UNCHANGED <<everLog, millis, timeVars, windowMs, maxRequests, lastCleanup, uptime,
                   sweptAt, sqVars, sqGhost, boardVars, valVars, iterVars>>

(***************************************************************************)
(* BLEKeyboardManager: the send queue                                      *)
(***************************************************************************)
Chars == <<"a", "b", "c">>

\* A text of the given length; the shift makes two texts of one length differ.
TextOf(length, shift) == [i \in 1 .. length |-> Chars[((i + shift) % 3) + 1]]

\* Every length up to one past the maximum, and a second text of one chunk and a bit.
Texts == {TextOf(length, 0) : length \in 0 .. (MAX_MESSAGE_LENGTH + 1)}
            \cup {TextOf(TEXT_CHUNK_SIZE + 1, 1)}

\* The argument of queueText: a null pointer or a C string.
TextArgs == {[null |-> TRUE, chars |-> <<>>]}
                \cup {[null |-> FALSE, chars |-> t] : t \in Texts}

\* SendQueue::reset that leaves the cursor where it was.
SendQueueResetKeepsCursor(q) ==
    [buffer |-> <<>>, position |-> q.position, lastSendTime |-> 0, active |-> FALSE]

\* SendQueue::reset
SendQueueReset(q) ==
    [buffer |-> <<>>, position |-> 0, lastSendTime |-> 0, active |-> FALSE]

\* strncpy(buffer, text, MAX_MESSAGE_LENGTH) and the terminator after it.
strncpyMax(chars) == SubSeq(chars, 1, Min(Len(chars), MAX_MESSAGE_LENGTH))

\* SendQueue::start
SendQueueStart(chars) ==
    [buffer |-> strncpyMax(chars), position |-> 0, lastSendTime |-> millis,
     active |-> TRUE]

\* SendQueue::getLength
getLength(q) == Len(q.buffer)

\* A chunk length that takes all that remains of the payload.
chunkLenRemaining(q) == getLength(q) - q.position

chunkLen(q) == Min(getLength(q) - q.position, TEXT_CHUNK_SIZE)

\* A chunk that is always taken from the start of the buffer.
chunkOfFirst(q) == SubSeq(q.buffer, 1, chunkLen(q))

\* The characters copied into chunk[].
chunkOf(q) == SubSeq(q.buffer, q.position + 1, q.position + chunkLen(q))

\* A pacing test that is satisfied one tick early.
PacingElapsedEarly(q) == hasElapsed(q.lastSendTime, CHUNK_DELAY_MS - 1)

\* A pacing test with the operands of the subtraction swapped.
PacingElapsedSwapped(q) == USub(q.lastSendTime, millis) >= CHUNK_DELAY_MS

PacingElapsed(q) == hasElapsed(q.lastSendTime, CHUNK_DELAY_MS)

\* A completion test that misses the cursor reaching the end exactly.
QueueDoneLate(position, totalLength) == position > totalLength

QueueDone(position, totalLength) == position >= totalLength

\* processSendQueue without the test of keyboard.isConnected().
processBranchNoLinkTest(q, ready, printOk) ==
    IF ~q.active THEN "idle"
    ELSE IF ~PacingElapsed(q) THEN "wait"
    ELSE IF ~printOk THEN "failed"
    ELSE IF QueueDone(q.position + chunkLen(q), getLength(q)) THEN "done"
    ELSE "sent"

\* Which path processSendQueue takes; printOk is what keyboard.print returns.
processBranch(q, ready, printOk) ==
    IF ~q.active THEN "idle"
    ELSE IF ~PacingElapsed(q) THEN "wait"
    ELSE IF ~ready THEN "lost"
    ELSE IF ~printOk THEN "failed"
    ELSE IF QueueDone(q.position + chunkLen(q), getLength(q)) THEN "done"
    ELSE "sent"

\* keyboard.releaseAll() called on every path that ends in SendQueue::reset.
releaseAllOnReset(q, ready, printOk) ==
    processBranch(q, ready, printOk) \in {"done", "lost", "failed"}

\* Whether processSendQueue calls keyboard.releaseAll().
releaseAll(q, ready, printOk) == processBranch(q, ready, printOk) = "done"

\* processSendQueue that keeps the payload while the host is away and
\* waits for it to come back.
processSendQueueWaitsForLink(q, ready, printOk) ==
    CASE processBranch(q, ready, printOk) \in {"idle", "wait", "lost"} -> q
      [] processBranch(q, ready, printOk) = "failed" -> SendQueueReset(q)
      [] processBranch(q, ready, printOk) = "sent" ->
            [q EXCEPT !.position = @ + chunkLen(q), !.lastSendTime = millis]
      [] processBranch(q, ready, printOk) = "done" ->
            SendQueueReset([q EXCEPT !.position = @ + chunkLen(q),
                                     !.lastSendTime = millis])

\* The queue after processSendQueue.
processSendQueue(q, ready, printOk) ==
    CASE processBranch(q, ready, printOk) \in {"idle", "wait"} -> q
      [] processBranch(q, ready, printOk) \in {"lost", "failed"} -> SendQueueReset(q)
      [] processBranch(q, ready, printOk) = "sent" ->
            [q EXCEPT !.position = @ + chunkLen(q), !.lastSendTime = millis]
      [] processBranch(q, ready, printOk) = "done" ->
            SendQueueReset([q EXCEPT !.position = @ + chunkLen(q),
                                     !.lastSendTime = millis])

\* A length test that also rejects a message of exactly the maximum length.
TooLongInclusive(chars) == Len(chars) >= MAX_MESSAGE_LENGTH

TooLong(chars) == Len(chars) > MAX_MESSAGE_LENGTH

\* queueText without the test for a transmission in flight.
queueTextResultNoBusy(q, ready, text) ==
    IF ~ready THEN "BLE_NOT_CONNECTED"
    ELSE IF text.null \/ text.chars = <<>> THEN "MESSAGE_EMPTY"
    ELSE IF TooLong(text.chars) THEN "MESSAGE_TOO_LONG"
    ELSE "SUCCESS"

\* The ErrorCode queueText returns.
queueTextResult(q, ready, text) ==
    IF ~ready THEN "BLE_NOT_CONNECTED"
    ELSE IF q.active THEN "BUSY"
    ELSE IF text.null \/ text.chars = <<>> THEN "MESSAGE_EMPTY"
    ELSE IF TooLong(text.chars) THEN "MESSAGE_TOO_LONG"
    ELSE "SUCCESS"

isBusy == sendQueue.active

\* Ghost bookkeeping -------------------------------------------------------
NoTx == [payload |-> <<>>, sent |-> <<>>, chunks |-> 0, releases |-> 0,
         endPosition |-> 0, fate |-> "none"]

SQConstructed ==
    /\ sendQueue = SendQueueReset([position |-> 0])
    /\ sqAge = 0
    /\ tx = NoTx

queueText(text) ==
    LET result == queueTextResult(sendQueue, connected, text)
    IN  /\ lastOp' = "queueText"
        /\ lastArg' = text
        /\ lastResult' = result
        /\ sendQueue' = IF result = "SUCCESS" THEN SendQueueStart(text.chars)
                        ELSE sendQueue
        /\ sqAge' = IF result = "SUCCESS" THEN 0 ELSE sqAge
        /\ tx' = IF result = "SUCCESS"
                 THEN [NoTx EXCEPT !.payload = text.chars, !.fate = "sending"]
                 ELSE tx
        /\ UNCHANGED <<millis, timeVars, rlVars, rlGhost, connected, boardVars, valVars, iterVars>>

update(printOk) ==
    LET branch == processBranch(sendQueue, connected, printOk)
    IN  /\ lastOp' = "update"
        /\ lastArg' = sqAge
        /\ lastResult' = branch
        /\ sendQueue' = processSendQueue(sendQueue, connected, printOk)
        /\ sqAge' = IF branch \in {"sent", "done"} THEN 0 ELSE sqAge
        /\ tx' = LET after ==
                        CASE branch \in {"sent", "done"} ->
                                [tx EXCEPT !.sent = @ \o chunkOf(sendQueue),
                                           !.chunks = @ + 1,
                                           !.endPosition =
                                                sendQueue.position + chunkLen(sendQueue),
                                           !.fate = IF branch = "done" THEN "completed"
                                                    ELSE @]
                          [] branch \in {"lost", "failed"} ->
                                [tx EXCEPT !.fate = "aborted"]
                          [] OTHER -> tx
                 IN  [after EXCEPT !.releases =
                        IF releaseAll(sendQueue, connected, printOk) THEN @ + 1 ELSE @]
        /\ UNCHANGED <<millis, timeVars, rlVars, rlGhost, connected, boardVars, valVars, iterVars>>

\* The host connects to or drops the BLE keyboard.
BleLink(up) ==
    /\ connected # up
    /\ connected' = up
    /\ lastOp' = "link"
    /\ lastArg' = None
    /\ lastResult' = None
    /\ UNCHANGED <<millis, timeVars, rlVars, rlGhost, sendQueue, sqGhost, boardVars,
                   valVars, iterVars>>

(***************************************************************************)
(* The clock.                                                              *)
(***************************************************************************)
(***************************************************************************)
(* LEDManager, WiFiManager and the main loop                               *)
(***************************************************************************)
\* Config::LED::FLASH_INTERVAL_MS, Config::WiFi::DISCONNECT_ALERT_MS and
\* Config::WiFi::STATUS_CHECK_INTERVAL_MS, and the 60000 ms between two
\* calls of cleanup() in handleClient(), in ticks.
FLASH_INTERVAL_MS == 2

DISCONNECT_ALERT_MS == 3

STATUS_CHECK_INTERVAL_MS == 1

CleanupCadence == DISCONNECT_ALERT_MS

HIGH == TRUE

LOW == FALSE

\* The LED manager after the constructor and begin().
LEDBegun ==
    [manualState |-> FALSE, flashingEnabled |-> FALSE, flashState |-> FALSE,
     lastFlashToggle |-> 0, pin |-> LOW]

\* LEDManager::update
ledUpdate(l) ==
    IF l.flashingEnabled
    THEN IF hasElapsed(l.lastFlashToggle, FLASH_INTERVAL_MS)
         THEN [l EXCEPT !.flashState = ~l.flashState,
                        !.pin = IF ~l.flashState THEN HIGH ELSE LOW,
                        !.lastFlashToggle = millis]
         ELSE l
    ELSE [l EXCEPT !.pin = IF l.manualState THEN HIGH ELSE LOW]

\* A toggle that writes the pin without looking at flashingEnabled.
toggleAlwaysWrites(l) ==
    [l EXCEPT !.manualState = ~l.manualState,
              !.pin = IF ~l.manualState THEN HIGH ELSE LOW]

\* LEDManager::toggle
toggle(l) ==
    [l EXCEPT !.manualState = ~l.manualState,
              !.pin = IF ~l.flashingEnabled
                      THEN (IF ~l.manualState THEN HIGH ELSE LOW)
                      ELSE l.pin]

\* LEDManager::setManual
setManual(l, state) ==
    [l EXCEPT !.manualState = state,
              !.pin = IF ~l.flashingEnabled
                      THEN (IF state THEN HIGH ELSE LOW)
                      ELSE l.pin]

\* LEDManager::setFlashing
setFlashing(l, enabled) ==
    IF enabled
    THEN [l EXCEPT !.flashingEnabled = TRUE,
                   !.lastFlashToggle = millis,
                   !.flashState = FALSE]
    ELSE [l EXCEPT !.flashingEnabled = FALSE,
                   !.pin = IF l.manualState THEN HIGH ELSE LOW]

\* WiFiManager::state after begin(): connected, or timed out at time now.
WifiBegun(status, now) ==
    IF status
    THEN [connected |-> TRUE, disconnectTime |-> 0, lastStatusCheck |-> 0,
          hasBeenConnected |-> TRUE]
    ELSE [connected |-> FALSE, disconnectTime |-> now, lastStatusCheck |-> 0,
          hasBeenConnected |-> FALSE]

\* WiFiManager::update
wifiUpdate(w, status) ==
    IF ~hasElapsed(w.lastStatusCheck, STATUS_CHECK_INTERVAL_MS) THEN w
    ELSE IF status
         THEN IF ~w.connected
              THEN [w EXCEPT !.lastStatusCheck = millis, !.connected = TRUE,
                             !.hasBeenConnected = TRUE, !.disconnectTime = 0]
              ELSE [w EXCEPT !.lastStatusCheck = millis]
         ELSE IF w.connected
              THEN [w EXCEPT !.lastStatusCheck = millis, !.connected = FALSE,
                             !.disconnectTime = millis]
              ELSE [w EXCEPT !.lastStatusCheck = millis]

\* WiFiManager::isDisconnectedLongTerm
isDisconnectedLongTerm(w) ==
    IF w.connected THEN FALSE
    ELSE IF w.disconnectTime = 0 THEN FALSE
    ELSE hasElapsed(w.disconnectTime, DISCONNECT_ALERT_MS)

\* Ghost bookkeeping -------------------------------------------------------
NoLedGhost == [downFor |-> 0, pinHeld |-> 0, looped |-> FALSE, offFor |-> 0]

\* The board after setup() with WiFi connected.
BoardConstructed ==
    /\ led = LEDBegun
    /\ wifi = WifiBegun(TRUE, 0)
    /\ radio = TRUE
    /\ statics = [lastWiFiState |-> FALSE, lastCleanup |-> 0]
    /\ ledGhost = NoLedGhost

\* No message is under validation.
NoIter == [first |-> "none"]

NoMessage ==
    /\ msg = <<>>
    /\ charIsSigned = FALSE

ClockStep == millis' = (millis + 1) % Modulus

(***************************************************************************)
(* Specification SpecTime: a start timestamp is taken, the clock runs on,  *)
(* and hasElapsed is called at any time afterwards.                        *)
(***************************************************************************)
InitTime ==
    /\ tStart \in Instants
    /\ tInterval \in Instants
    /\ millis = tStart
    /\ tElapsed = 0
    /\ lastOp = None
    /\ lastArg = None
    /\ lastResult = None
    /\ windowMs = 1
    /\ maxRequests = 1
    /\ RLConstructed
    /\ SQConstructed
    /\ connected = FALSE
    /\ BoardConstructed
    /\ NoMessage
    /\ iter = NoIter

TickTime ==
    /\ tElapsed < AgeCap
    /\ ClockStep
    /\ tElapsed' = tElapsed + 1
    /\ lastOp' = "tick"
    /\ lastArg' = None
    /\ lastResult' = None
    /\ UNCHANGED <<tStart, tInterval, rlVars, rlGhost, sqVars, sqGhost, boardVars,
                   valVars, iterVars>>

CallHasElapsed ==
    /\ lastOp' = "hasElapsed"
    /\ lastArg' = None
    /\ lastResult' = hasElapsed(tStart, tInterval)
    /\ UNCHANGED <<millis, timeVars, rlVars, rlGhost, sqVars, sqGhost, boardVars,
                   valVars, iterVars>>

\* withinWindow(start, interval), called at any time under SpecTime.
CallWithinWindow ==
    /\ lastOp' = "withinWindow"
    /\ lastArg' = None
    /\ lastResult' = withinWindow(tStart, tInterval)
    /\ UNCHANGED <<millis, timeVars, rlVars, rlGhost, sqVars, sqGhost, boardVars,
                   valVars, iterVars>>

NextTime == TickTime \/ CallHasElapsed \/ CallWithinWindow

SpecTime == InitTime /\ [][NextTime]_vars

(***************************************************************************)
(* C1: whenever the true time elapsed since start is below half the range  *)
(* of the clock, hasElapsed(start, interval) returns true exactly when the *)
(* true elapsed time is at least interval, also when the clock has wrapped *)
(* and millis() is numerically below start.                                *)
(***************************************************************************)
C1_HasElapsedMatchesTrueTime ==
    (lastOp = "hasElapsed" /\ tElapsed < HalfRange)
        => (lastResult = (tElapsed >= tInterval))

\* hasElapsed answered true after the clock wrapped past zero.
C1_Witness ==
    /\ lastOp = "hasElapsed"
    /\ tElapsed < HalfRange
    /\ millis < tStart
    /\ tInterval > 0
    /\ lastResult = TRUE

(***************************************************************************)
(* Specification SpecRL: a limiter is constructed at boot with some window *)
(* and limit; requests of one client, cleanup() and reset() arrive in any  *)
(* order while the clock runs until it has wrapped once.                   *)
(* Specification SpecIso: the same with two clients, for as long as it     *)
(* takes every path of checkLimit and a sweep of cleanup() to happen.      *)
(***************************************************************************)
InitRL ==
    /\ millis = 0
    /\ tStart = 0
    /\ tInterval = 0
    /\ tElapsed = 0
    /\ windowMs \in 1 .. MaxWindow
    /\ maxRequests \in 1 .. MaxRequests
    /\ RLConstructed
    /\ SQConstructed
    /\ connected = FALSE
    /\ lastOp = None
    /\ lastArg = None
    /\ lastResult = None
    /\ BoardConstructed
    /\ NoMessage
    /\ iter = NoIter

Tick(horizon) ==
    /\ uptime < horizon
    /\ ClockStep
    /\ uptime' = uptime + 1
    /\ fresh' = [ip \in IPs |->
                    IF fresh[ip].at # NoWindow /\ uptime' - fresh[ip].at >= windowMs
                    THEN Stale ELSE fresh[ip]]
    /\ admitLog' = [ip \in IPs |-> KeepRecent(admitLog[ip], uptime', windowMs)]
    /\ everLog' = [w \in DOMAIN everLog |->
                       KeepRecent(everLog[w], uptime', windowMs)]
    /\ lastOp' = "tick"
    /\ lastArg' = None
    /\ lastResult' = None
    /\ shadowResult' = None
    /\ UNCHANGED <<timeVars, rlVars, startAt, shadow, sweptAt, sqVars, sqGhost, boardVars,
                   valVars, iterVars>>

NextRL ==
    \/ Tick(MaxUptime)
    \/ checkLimit(QuietIp)
    \/ cleanup
    \/ reset

SpecRL == InitRL /\ [][NextRL]_vars

NextIso ==
    \/ Tick(IsoHorizon)
    \/ \E ip \in IPs : checkLimit(ip)
    \/ cleanup
    \/ reset

SpecIso == InitRL /\ [][NextIso]_vars

\* The record the table holds for ip, or a placeholder no record equals.
RecordOf(table, ip) ==
    IF Tracked(table, ip) THEN table[ipToUint32(ip)] ELSE ClientInfo(-1, 0)

\* The true age of ip's current window.
WindowAge(ip) == uptime - startAt[ip]

(***************************************************************************)
(* C2: for a key that was not in the table and maxRequests = N >= 1, the   *)
(* first N calls of checkLimit made while less than windowMs has passed    *)
(* since the first of them return admit, and the (N+1)-th call made within *)
(* that window returns deny.                                               *)
(***************************************************************************)
C2_FirstWindowAdmitsExactlyLimit ==
    lastOp = "checkLimit" =>
        LET f == fresh[lastArg]
        IN  (f.at # NoWindow /\ uptime - f.at < windowMs) =>
                /\ (f.n <= maxRequests => lastResult = TRUE)
                /\ (f.n = maxRequests + 1 => lastResult = FALSE)

\* The (N+1)-th call of a new client, later in its first window, was denied.
C2_Witness ==
    /\ lastOp = "checkLimit"
    /\ maxRequests >= 2
    /\ fresh[lastArg].n = maxRequests + 1
    /\ uptime > fresh[lastArg].at
    /\ uptime - fresh[lastArg].at < windowMs
    /\ lastResult = FALSE

C4_ExpiredWindowRestarts ==
    [][\A ip \in IPs :
        (/\ Tracked(clients, ip)
         /\ WindowAge(ip) >= windowMs
         /\ lastOp' = "checkLimit"
         /\ lastArg' = ip)
        => (/\ lastResult' = TRUE
            /\ RecordOf(clients', ip) = ClientInfo(millis, 1))]_vars

(***************************************************************************)
(* C4 as amended: once windowMs or more, and less than one full range of   *)
(* the clock (2^W), has passed since a key's window start, the next        *)
(* checkLimit of that key returns admit and leaves the record at count 1   *)
(* with the window starting now, whatever was admitted or denied before.   *)
(***************************************************************************)
C4_ExpiredWindowRestartsBeforeWrap ==
    [][\A ip \in IPs :
        (/\ Tracked(clients, ip)
         /\ WindowAge(ip) >= windowMs
         /\ WindowAge(ip) < Modulus
         /\ lastOp' = "checkLimit"
         /\ lastArg' = ip)
        => (/\ lastResult' = TRUE
            /\ RecordOf(clients', ip) = ClientInfo(millis, 1))]_vars

\* A call found its record's window expired and began a new one.
C4_Witness ==
    /\ lastOp = "checkLimit"
    /\ lastResult = TRUE
    /\ Tracked(clients, lastArg)
    /\ startAt[lastArg] = uptime
    /\ fresh[lastArg].at = NoWindow
    /\ RecordOf(clients, lastArg) = ClientInfo(millis, 1)

(***************************************************************************)
(* C5: keys are isolated.  A checkLimit call for one address leaves the    *)
(* record of every other address as it was, and what checkLimit returns    *)
(* for an address, and the record it leaves, are the same as in a limiter  *)
(* that saw the same calls at the same clock values except those of the    *)
(* other address.                                                          *)
(***************************************************************************)
C5_KeysIsolated ==
    [][/\ lastOp' = "checkLimit" =>
            /\ \A ip \in IPs \ {lastArg'} :
                    RecordOf(clients', ip) = RecordOf(clients, ip)
            /\ lastArg' # NoisyIp => lastResult' = shadowResult'
       /\ RecordOf(clients', QuietIp) = RecordOf(shadow', QuietIp)]_vars

\* One address has been denied in its window and the other is admitted.
C5_Witness ==
    /\ lastOp = "checkLimit"
    /\ lastArg = QuietIp
    /\ lastResult = TRUE
    /\ Tracked(clients, NoisyIp)
    /\ fresh[NoisyIp].n > maxRequests
    /\ RecordOf(clients, QuietIp).requestCount = 2

(***************************************************************************)
(* Specification SpecSQ: the send queue is idle, at boot or when the clock *)
(* is about to wrap; texts are queued, update() runs, the BLE link comes   *)
(* and goes and transmissions succeed or fail, in any order.               *)
(***************************************************************************)
InitSQ ==
    /\ millis \in {0, Modulus - CHUNK_DELAY_MS}
    /\ tStart = 0
    /\ tInterval = 0
    /\ tElapsed = 0
    /\ windowMs = 1
    /\ maxRequests = 1
    /\ RLConstructed
    /\ SQConstructed
    /\ connected \in BOOLEAN
    /\ lastOp = None
    /\ lastArg = None
    /\ lastResult = None
    /\ BoardConstructed
    /\ NoMessage
    /\ iter = NoIter

TickSQ ==
    /\ uptime < SQHorizon
    /\ ClockStep
    /\ uptime' = uptime + 1
    /\ sqAge' = Bump(sqAge)
    /\ lastOp' = "tick"
    /\ lastArg' = None
    /\ lastResult' = None
    /\ UNCHANGED <<timeVars, rlVars, startAt, fresh, admitLog, everLog, shadow, shadowResult,
                   sweptAt, sqVars, tx, boardVars, valVars, iterVars>>

NextSQ ==
    \/ TickSQ
    \/ \E text \in TextArgs : queueText(text)
    \/ \E printOk \in BOOLEAN : update(printOk)
    \/ \E up \in BOOLEAN : BleLink(up)

SpecSQ == InitSQ /\ [][NextSQ]_vars

CeilDiv(a, b) == (a + b - 1) \div b

(***************************************************************************)
(* C6 as stated: queueText called while isBusy() is true always returns    *)
(* BUSY, whatever the channel readiness and the new payload, and leaves    *)
(* the queue unchanged.                                                    *)
(***************************************************************************)
C6_BusyAlwaysReturnsBusy ==
    [][(lastOp' = "queueText" /\ sendQueue.active)
        => (lastResult' = "BUSY" /\ sendQueue' = sendQueue)]_vars

(***************************************************************************)
(* C6 as amended: queueText called while isBusy() is true never succeeds,  *)
(* whatever the new payload: it returns BUSY if the channel is ready and   *)
(* BLE_NOT_CONNECTED if it is not, and leaves the in-flight payload, the   *)
(* cursor, lastSendTime and the active flag unchanged.                     *)
(***************************************************************************)
C6_BusyNeverAccepts ==
    [][(lastOp' = "queueText" /\ sendQueue.active)
        => (/\ lastResult' = IF connected THEN "BUSY" ELSE "BLE_NOT_CONNECTED"
            /\ sendQueue' = sendQueue
            /\ tx' = tx)]_vars

\* A different text was refused with BUSY in the middle of a transmission.
C6_Witness ==
    /\ lastOp = "queueText"
    /\ lastResult = "BUSY"
    /\ sendQueue.active
    /\ sendQueue.position > 0
    /\ ~lastArg.null
    /\ lastArg.chars # <<>>
    /\ lastArg.chars # sendQueue.buffer

(***************************************************************************)
(* C7 as stated: an accepted payload of length L completes after exactly   *)
(* ceil(L / TEXT_CHUNK_SIZE) successful transmissions, and when it has     *)
(* completed the cursor equals L.                                          *)
(***************************************************************************)
C7_CompletedCursorAtLength ==
    (lastOp = "update" /\ lastResult = "done") =>
        /\ tx.chunks = CeilDiv(Len(tx.payload), TEXT_CHUNK_SIZE)
        /\ sendQueue.position = Len(tx.payload)

(***************************************************************************)
(* C7 as amended: an accepted payload of length L completes after exactly  *)
(* ceil(L / TEXT_CHUNK_SIZE) successful transmissions driven by update();  *)
(* the cursor reaches L in the completing update() call and L characters   *)
(* have been transmitted, and that same call resets the queue, so that the *)
(* cursor reads 0 (and isBusy() false) once it has returned.               *)
(***************************************************************************)
C7_CompletesAfterCeilChunks ==
    /\ tx.fate = "completed" =>
            /\ tx.chunks = CeilDiv(Len(tx.payload), TEXT_CHUNK_SIZE)
            /\ tx.endPosition = Len(tx.payload)
            /\ Len(tx.sent) = Len(tx.payload)
            /\ sendQueue.position = 0
            /\ ~sendQueue.active
    /\ tx.fate = "sending" =>
            /\ sendQueue.active
            /\ tx.chunks < CeilDiv(Len(tx.payload), TEXT_CHUNK_SIZE)
            /\ sendQueue.position = tx.chunks * TEXT_CHUNK_SIZE

\* A payload that is not a whole number of chunks completed with its third chunk.
C7_Witness ==
    /\ lastOp = "update"
    /\ lastResult = "done"
    /\ tx.chunks = 3
    /\ Len(tx.payload) % TEXT_CHUNK_SIZE # 0

(***************************************************************************)
(* C8: update() called while less than CHUNK_DELAY_MS has passed since     *)
(* lastSendTime never advances the cursor, transmits nothing and leaves    *)
(* the payload, lastSendTime and the active flag unchanged.                *)
(***************************************************************************)
C8_PacingHoldsCursor ==
    [][(lastOp' = "update" /\ sendQueue.active /\ sqAge < CHUNK_DELAY_MS)
        => (sendQueue' = sendQueue /\ tx' = tx)]_vars

\* update() came too early, after the clock had wrapped past lastSendTime.
C8_Witness ==
    /\ lastOp = "update"
    /\ lastResult = "wait"
    /\ connected
    /\ sqAge > 0
    /\ millis < sendQueue.lastSendTime

(***************************************************************************)
(* C9: in every reachable state of the send queue 0 <= position and        *)
(* position <= length of the buffered text, and an inactive queue has      *)
(* position 0 and an empty text.                                           *)
(***************************************************************************)
C9_QueueInvariant ==
    /\ 0 <= sendQueue.position
    /\ sendQueue.position <= getLength(sendQueue)
    /\ ~sendQueue.active => (sendQueue.position = 0 /\ getLength(sendQueue) = 0)

\* A transmission was dropped after its first chunk because the link went down.
C9_Witness ==
    /\ lastOp = "update"
    /\ lastResult = "lost"
    /\ tx.chunks >= 1
    /\ ~sendQueue.active

(***************************************************************************)
(* C10: a rejected queueText returns exactly one of BLE_NOT_CONNECTED,     *)
(* BUSY, MESSAGE_EMPTY and MESSAGE_TOO_LONG, the last only for a text      *)
(* longer than MAX_MESSAGE_LENGTH (a text of exactly that length is        *)
(* accepted by an idle queue with the channel ready), and a rejected call  *)
(* changes nothing of the send queue.                                      *)
(***************************************************************************)
C10_RejectionReasons ==
    [][lastOp' = "queueText" =>
        LET text == lastArg'
            result == lastResult'
        IN  /\ result \in {"SUCCESS", "BLE_NOT_CONNECTED", "BUSY",
                           "MESSAGE_EMPTY", "MESSAGE_TOO_LONG"}
            /\ result = "BLE_NOT_CONNECTED" => ~connected
            /\ result = "BUSY" => sendQueue.active
            /\ result = "MESSAGE_EMPTY" => (text.null \/ text.chars = <<>>)
            /\ result = "MESSAGE_TOO_LONG" =>
                    (~text.null /\ Len(text.chars) > MAX_MESSAGE_LENGTH)
            /\ (/\ connected
                /\ ~sendQueue.active
                /\ ~text.null
                /\ Len(text.chars) >= 1
                /\ Len(text.chars) <= MAX_MESSAGE_LENGTH)
                    => (result = "SUCCESS" /\ sendQueue'.buffer = text.chars)
            /\ result # "SUCCESS" => (sendQueue' = sendQueue /\ tx' = tx)]_vars

\* An idle, connected queue refused a text one character too long.
C10_Witness ==
    /\ lastOp = "queueText"
    /\ lastResult = "MESSAGE_TOO_LONG"
    /\ Len(lastArg.chars) = MAX_MESSAGE_LENGTH + 1
    /\ connected
    /\ ~sendQueue.active

\* The k-th chunk of a payload: payload[(k-1)*C .. min(k*C, L)).
PayloadSlice(payload, k) ==
    SubSeq(payload, (k - 1) * TEXT_CHUNK_SIZE + 1,
           Min(k * TEXT_CHUNK_SIZE, Len(payload)))

\* The update() calls that hand a chunk to keyboard.print.
Attempts == {"sent", "done", "failed"}

(***************************************************************************)
(* C11: the chunks of one payload are transmitted in order and without     *)
(* gaps.  The chunk update() hands to the channel after k-1 successful     *)
(* chunks is payload[(k-1)*C .. min(k*C, L)); a chunk is attempted only    *)
(* while every earlier chunk of the payload has succeeded; what has been   *)
(* transmitted is at every moment a prefix of the payload, with no byte    *)
(* twice or skipped, and on completion it equals the payload.              *)
(***************************************************************************)
C11_ChunksOrderedContiguous ==
    [][/\ (lastOp' = "update" /\ lastResult' \in Attempts) =>
            /\ tx.fate = "sending"
            /\ Len(tx.sent) = tx.chunks * TEXT_CHUNK_SIZE
            /\ chunkOf(sendQueue) = PayloadSlice(tx.payload, tx.chunks + 1)
            /\ chunkOf(sendQueue) # <<>>
            /\ tx'.sent = IF lastResult' = "failed" THEN tx.sent
                          ELSE tx.sent \o PayloadSlice(tx.payload, tx.chunks + 1)
       /\ (lastOp' = "update" /\ lastResult' \notin Attempts) => tx'.sent = tx.sent
       /\ tx'.sent = SubSeq(tx'.payload, 1, Len(tx'.sent))
       /\ tx'.fate = "completed" => tx'.sent = tx'.payload]_vars

\* The longest payload went out as three chunks, the last one shorter.
C11_Witness ==
    /\ lastOp = "update"
    /\ lastResult = "done"
    /\ tx.sent = tx.payload
    /\ Len(tx.payload) = MAX_MESSAGE_LENGTH
    /\ tx.chunks = CeilDiv(MAX_MESSAGE_LENGTH, TEXT_CHUNK_SIZE)
    /\ tx.chunks >= 2

\* The queue as SendQueue::reset leaves it.
IdleQueue == SendQueueReset([position |-> 0])

(***************************************************************************)
(* C12 as stated: after any update() call made while the queue is sending  *)
(* and the channel reports not ready, the queue is idle with the payload   *)
(* discarded.                                                              *)
(***************************************************************************)
C12_AbortOnAnyUpdateWhileDown ==
    [][(lastOp' = "update" /\ sendQueue.active /\ ~connected)
        => sendQueue' = IdleQueue]_vars

(***************************************************************************)
(* C12 as amended: an update() call made while the queue is sending, once  *)
(* CHUNK_DELAY_MS has passed since lastSendTime, either transmits the next *)
(* chunk or leaves the queue idle with the payload discarded, within that  *)
(* call: it leaves it idle without transmitting when the channel reports   *)
(* not ready, and when the transmit fails.  No further chunk of an aborted *)
(* payload is ever transmitted and releaseAll is not called for it.  An    *)
(* update() call made before CHUNK_DELAY_MS has passed does not look at    *)
(* the channel and changes nothing, so a channel that is ready again when  *)
(* the next chunk is due goes on with the payload.                         *)
(***************************************************************************)
C12_AbortWhenChunkDue ==
    [][/\ (lastOp' = "update" /\ sendQueue.active /\ sqAge >= CHUNK_DELAY_MS) =>
            /\ ~connected => (sendQueue' = IdleQueue /\ tx'.fate = "aborted")
            /\ \/ /\ connected
                  /\ tx'.chunks = tx.chunks + 1
                  /\ tx'.fate \in {"sending", "completed"}
               \/ /\ sendQueue' = IdleQueue
                  /\ tx'.fate = "aborted"
                  /\ tx'.sent = tx.sent
                  /\ tx'.chunks = tx.chunks
                  /\ tx'.releases = tx.releases
       /\ (lastOp' = "update" /\ sendQueue.active /\ sqAge < CHUNK_DELAY_MS) =>
            (sendQueue' = sendQueue /\ tx'.fate = "sending")
       /\ tx.fate = "aborted" =>
            /\ ~sendQueue.active
            /\ \/ tx' = tx
               \/ lastOp' = "queueText" /\ lastResult' = "SUCCESS"]_vars

\* The link was down when the second chunk was due and the payload was dropped.
C12_Witness ==
    /\ lastOp = "update"
    /\ lastResult = "lost"
    /\ ~connected
    /\ sendQueue = IdleQueue
    /\ tx.fate = "aborted"
    /\ tx.chunks = 1
    /\ Len(tx.sent) < Len(tx.payload)

(***************************************************************************)
(* C13: keyboard.releaseAll() is called exactly once for a payload that    *)
(* completes, in the update() call whose successful chunk brings position  *)
(* to the length of the payload or past it, and it is never called for a   *)
(* payload that is aborted because the channel was lost or a transmit      *)
(* failed, nor by queueText.  (The key combinations release the keys they  *)
(* pressed themselves; that is not the queue's end-of-transmission call.)  *)
(***************************************************************************)
C13_ReleaseOncePerCompletion ==
    [][/\ tx'.releases # tx.releases =>
            \/ /\ lastOp' = "update"
               /\ tx'.releases = tx.releases + 1
               /\ tx'.chunks = tx.chunks + 1
               /\ tx'.endPosition >= Len(tx.payload)
               /\ tx.fate = "sending"
               /\ tx'.fate = "completed"
            \/ /\ lastOp' = "queueText"
               /\ lastResult' = "SUCCESS"
               /\ tx'.releases = 0
       /\ (lastOp' = "update" /\ tx.fate = "sending"
                /\ tx'.chunks = tx.chunks + 1
                /\ tx'.endPosition >= Len(tx.payload)) =>
            tx'.releases = tx.releases + 1
       /\ tx'.fate = "completed" => tx'.releases = 1
       /\ tx'.fate \in {"sending", "aborted"} => tx'.releases = 0]_vars

\* A payload of two full chunks completed and the keys were released once.
C13_Witness ==
    /\ lastOp = "update"
    /\ lastResult = "done"
    /\ tx.releases = 1
    /\ tx.chunks = 2
    /\ Len(tx.payload) = 2 * TEXT_CHUNK_SIZE

(***************************************************************************)
(* C14: chunks are never sent closer together than CHUNK_DELAY_MS.  When   *)
(* update() transmits a chunk, at least CHUNK_DELAY_MS of true time has    *)
(* passed since the last successful chunk of the payload or, for the first *)
(* chunk, since queueText accepted the payload, also when the clock has    *)
(* wrapped in between.                                                     *)
(***************************************************************************)
C14_ChunkSpacing ==
    [][/\ (lastOp' = "update" /\ tx'.chunks = tx.chunks + 1) =>
            (sqAge >= CHUNK_DELAY_MS /\ sqAge' = 0)
       /\ (lastOp' = "queueText" /\ lastResult' = "SUCCESS") => sqAge' = 0
       /\ lastOp' = "tick" => sqAge' = Bump(sqAge)
       /\ tx'.sent # tx.sent =>
            (lastOp' = "update" \/ (lastOp' = "queueText" /\ tx'.sent = <<>>))]_vars

\* The first chunk went out after the clock wrapped past the enqueue time.
C14_Witness ==
    /\ lastOp = "update"
    /\ lastResult = "sent"
    /\ tx.chunks = 1
    /\ sqAge = 0
    /\ uptime >= CHUNK_DELAY_MS
    /\ millis < CHUNK_DELAY_MS

(***************************************************************************)
(* C15: with maxRequests >= 1, after any sequence of checkLimit, cleanup   *)
(* and reset calls the requestCount of every record lies in                *)
(* [0, maxRequests] (it is at least 1 as well), and the counter never      *)
(* wraps: a call leaves it as it was, adds one to it or sets it to 1.      *)
(***************************************************************************)
C15_CountWithinLimit ==
    [][/\ maxRequests >= 1 =>
            \A key \in DOMAIN clients' :
                /\ clients'[key].requestCount >= 1
                /\ clients'[key].requestCount <= maxRequests
       /\ \A key \in DOMAIN clients \cap DOMAIN clients' :
            \/ clients'[key].requestCount = clients[key].requestCount
            \/ clients'[key].requestCount = clients[key].requestCount + 1
            \/ clients'[key].requestCount = 1]_vars

\* A client at the largest limit the counter can hold was denied; the count stayed.
C15_Witness ==
    /\ lastOp = "checkLimit"
    /\ lastResult = FALSE
    /\ maxRequests + 1 = CounterRange
    /\ RecordOf(clients, QuietIp).requestCount = maxRequests

(***************************************************************************)
(* C16: a checkLimit call that returns deny changes nothing of the rate    *)
(* limiter: the record of the key (window start and count), every other    *)
(* record, the set of tracked keys, lastCleanup, windowMs and maxRequests  *)
(* are as before the call.                                                 *)
(***************************************************************************)
C16_DenyChangesNothing ==
    [][(lastOp' = "checkLimit" /\ lastResult' = FALSE) =>
            /\ DOMAIN clients' = DOMAIN clients
            /\ \A ip \in IPs : RecordOf(clients', ip) = RecordOf(clients, ip)
            /\ clients' = clients
            /\ lastCleanup' = lastCleanup
            /\ windowMs' = windowMs
            /\ maxRequests' = maxRequests]_vars

\* One of two tracked clients was denied some time after its window began.
C16_Witness ==
    /\ lastOp = "checkLimit"
    /\ lastResult = FALSE
    /\ lastArg = NoisyIp
    /\ getTrackedClientCount = 2
    /\ RecordOf(clients, NoisyIp).lastRequestTime # millis
    /\ RecordOf(clients, NoisyIp).requestCount = maxRequests

(***************************************************************************)
(* Specification SpecWide: a limiter constructed with a window so long     *)
(* that windowMs * 10 does not fit the unsigned type it is computed in     *)
(* (above 429 496 729 ms in the firmware); the same calls as in SpecRL.    *)
(***************************************************************************)
\* The shortest window whose tenfold exceeds the range of the counter.
WideWindow == Modulus \div 10 + 1

InitWide ==
    /\ millis = 0
    /\ tStart = 0
    /\ tInterval = 0
    /\ tElapsed = 0
    /\ windowMs = WideWindow
    /\ maxRequests \in 1 .. MaxRequests
    /\ RLConstructed
    /\ SQConstructed
    /\ connected = FALSE
    /\ lastOp = None
    /\ lastArg = None
    /\ lastResult = None
    /\ BoardConstructed
    /\ NoMessage
    /\ iter = NoIter

SpecWide == InitWide /\ [][NextRL]_vars

\* True ticks since construction or the last sweep of cleanup().
SinceSweep == uptime - sweptAt

(***************************************************************************)
(* C17: cleanup() sweeps only if at least ten windows (windowMs * 10) have *)
(* passed since the last sweep; a cleanup() call made earlier removes no   *)
(* record and leaves lastCleanup unchanged, so repeated calls within the   *)
(* throttle window have no effect beyond the first sweep.                  *)
(***************************************************************************)
C17_SweepOnlyAfterTenWindows ==
    [][(lastOp' = "cleanup" /\ SinceSweep < 10 * windowMs) =>
            /\ clients' = clients
            /\ lastCleanup' = lastCleanup]_vars

\* A sweep ran although ten windows had not passed since the limiter was made.
C17_Witness ==
    /\ lastOp = "cleanup"
    /\ lastResult = TRUE
    /\ lastCleanup = millis
    /\ sweptAt = uptime
    /\ uptime < 10 * windowMs
    /\ uptime < Modulus

(***************************************************************************)
(* C18: when cleanup() sweeps, it removes exactly the records whose window *)
(* began more than ten windows (windowMs * 10) ago and keeps every other   *)
(* record with its window start and count unchanged.  Stated for records   *)
(* whose window began less than one full range of the clock ago, for which *)
(* the time since the window start is what timeDiff measures.              *)
(***************************************************************************)
C18_SweepRemovesExactlyIdle ==
    [][(lastOp' = "cleanup" /\ lastResult' = TRUE) =>
            /\ DOMAIN clients' \subseteq DOMAIN clients
            /\ \A ip \in IPs :
                (Tracked(clients, ip) /\ WindowAge(ip) < Modulus) =>
                    IF WindowAge(ip) > 10 * windowMs
                    THEN ~Tracked(clients', ip)
                    ELSE RecordOf(clients', ip) = RecordOf(clients, ip)]_vars

\* A sweep removed a record before ten windows had passed since boot.
C18_Witness ==
    /\ lastOp = "cleanup"
    /\ lastResult = TRUE
    /\ lastArg = {ipToUint32(QuietIp)}
    /\ ~Tracked(clients, QuietIp)
    /\ uptime <= 10 * windowMs

(***************************************************************************)
(* Specification SpecSweep: a limiter with a window of one tick (1000 ms   *)
(* in the firmware, so that the throttle of cleanup() is ten ticks) is     *)
(* followed from its construction at clock value 0 until eleven ticks      *)
(* after the clock has wrapped to 0 again.                                 *)
(***************************************************************************)
\* The throttle of the scenario, in ticks of 1000 ms.
ThrottleTicks == 10 * 1

\* The scenario ends one tick after the throttle has elapsed past the wrap.
SweepHorizon == Modulus + ThrottleTicks + 1

InitSweep ==
    /\ millis = 0
    /\ tStart = 0
    /\ tInterval = 0
    /\ tElapsed = 0
    /\ windowMs = 1
    /\ maxRequests \in 1 .. MaxRequests
    /\ RLConstructed
    /\ SQConstructed
    /\ connected = FALSE
    /\ lastOp = None
    /\ lastArg = None
    /\ lastResult = None
    /\ BoardConstructed
    /\ NoMessage
    /\ iter = NoIter

NextSweep ==
    \/ Tick(SweepHorizon)
    \/ checkLimit(QuietIp)
    \/ cleanup
    \/ reset

SpecSweep == InitSweep /\ [][NextSweep]_vars

\* The time of the scenario: 0 when the clock reads its value at construction again.
ScenarioTime == uptime - Modulus

\* No sweep has run since construction and the client's window began at t = -20.
IdleClientUnswept ==
    /\ windowMs = 1
    /\ sweptAt = 0
    /\ lastCleanup = 0
    /\ ScenarioTime >= 0
    /\ Tracked(clients, QuietIp)
    /\ startAt[QuietIp] = Modulus - 2 * ThrottleTicks

(***************************************************************************)
(* C19: with a window of 1000 ms (one tick; the throttle is ten ticks) and *)
(* lastCleanup at t = 0, a client whose window began at t = -20 ticks is   *)
(* still tracked after cleanup() calls at t = 0 and later within the       *)
(* throttle (t = 500 ms in the claim): those calls change nothing.  A      *)
(* cleanup() call once ten ticks have passed removes the client, which is  *)
(* still idle for more than ten windows.                                   *)
(***************************************************************************)
C19_ThrottledThenSwept ==
    [][(lastOp' = "cleanup" /\ IdleClientUnswept) =>
            IF ScenarioTime < ThrottleTicks
            THEN /\ clients' = clients
                 /\ lastCleanup' = lastCleanup
                 /\ Tracked(clients', QuietIp)
            ELSE /\ ~Tracked(clients', QuietIp)
                 /\ lastCleanup' = millis]_vars

\* A second cleanup() inside the throttle left the long idle client in the table.
C19_Witness ==
    /\ lastOp = "cleanup"
    /\ lastResult = FALSE
    /\ lastArg = {}
    /\ IdleClientUnswept
    /\ ScenarioTime > 0
    /\ ScenarioTime < ThrottleTicks
    /\ RecordOf(clients, QuietIp).lastRequestTime = Modulus - 2 * ThrottleTicks

\* The clock has wrapped since the window of ip began.
WrappedSinceStart(ip) == startAt[ip] < Modulus /\ uptime >= Modulus

InitDiff ==
    /\ tStart \in Instants
    /\ tInterval = 0
    /\ millis = tStart
    /\ tElapsed = 0
    /\ lastOp = None
    /\ lastArg = None
    /\ lastResult = None
    /\ windowMs = 1
    /\ maxRequests = 1
    /\ RLConstructed
    /\ SQConstructed
    /\ connected = FALSE
    /\ BoardConstructed
    /\ NoMessage
    /\ iter = NoIter

\* timeDiff(start, end) with the end argument given.
CallTimeDiff(end) ==
    /\ lastOp' = "timeDiff"
    /\ lastArg' = end
    /\ lastResult' = timeDiff(tStart, end)
    /\ UNCHANGED <<millis, timeVars, rlVars, rlGhost, sqVars, sqGhost, boardVars,
                   valVars, iterVars>>

\* timeDiff(start): the compiler passes the default argument, 0.
CallTimeDiffNow ==
    /\ lastOp' = "timeDiffNow"
    /\ lastArg' = None
    /\ lastResult' = timeDiff(tStart, 0)
    /\ UNCHANGED <<millis, timeVars, rlVars, rlGhost, sqVars, sqGhost, boardVars,
                   valVars, iterVars>>

NextDiff ==
    \/ TickTime
    \/ \E end \in Instants : CallTimeDiff(end)
    \/ CallTimeDiffNow

SpecDiff == InitDiff /\ [][NextDiff]_vars

(***************************************************************************)
(* C21: timeDiff(start, end) called with an explicit end returns           *)
(* (end - start) mod 2^W for every pair of Instants, whatever the clock    *)
(* reads, and returns 0 when start = end.                                  *)
(***************************************************************************)
C21_ExplicitEndIsModularDistance ==
    lastOp = "timeDiff" =>
        /\ lastResult = ((lastArg - tStart) + Modulus) % Modulus
        /\ lastArg = tStart => lastResult = 0

\* timeDiff(0, 0) returned the clock value instead of 0.
C21_Witness ==
    /\ lastOp = "timeDiff"
    /\ lastArg = 0
    /\ tStart = 0
    /\ lastResult = millis
    /\ lastResult # 0

C24_ZeroIntervalAlwaysElapsed ==
    /\ \A start \in Instants : hasElapsed(start, 0)
    /\ (lastOp = "hasElapsed" /\ tInterval = 0) => lastResult = TRUE

\* Called at the very instant of start, as the unit test does.
C24_Witness ==
    /\ lastOp = "hasElapsed"
    /\ tInterval = 0
    /\ millis = tStart
    /\ tElapsed = 0
    /\ lastResult = TRUE

(***************************************************************************)
(* Specification SpecStatus: the send queue of SpecSQ with the status      *)
(* endpoint, which reports isBusy and getSendProgress, called at any time. *)
(***************************************************************************)
\* getSendProgress without the test for an idle queue.
getSendProgressNoIdleTest(q) ==
    IF getLength(q) = 0 THEN 100
    ELSE ((q.position * 100) \div getLength(q)) % 256

\* BLEKeyboardManager::getSendProgress; the return type is uint8_t.
getSendProgress(q) ==
    IF ~q.active THEN 0
    ELSE IF getLength(q) = 0 THEN 100
    ELSE ((q.position * 100) \div getLength(q)) % 256

\* The texts offered to queueText: empty, one character, one chunk and a
\* bit, and the longest accepted.
StatusTexts ==
    {TextOf(length, 0) : length \in {0, 1, TEXT_CHUNK_SIZE + 1, MAX_MESSAGE_LENGTH}}

\* WebServerManager::handleStatus, the "ble" object of its reply.
handleStatus ==
    /\ lastOp' = "status"
    /\ lastArg' = None
    /\ lastResult' = [busy |-> isBusy, progress |-> getSendProgress(sendQueue)]
    /\ UNCHANGED <<millis, timeVars, rlVars, rlGhost, sqVars, sqGhost, boardVars,
                   valVars, iterVars>>

NextStatus ==
    \/ TickSQ
    \/ \E chars \in StatusTexts : queueText([null |-> FALSE, chars |-> chars])
    \/ \E printOk \in BOOLEAN : update(printOk)
    \/ \E up \in BOOLEAN : BleLink(up)
    \/ handleStatus

SpecStatus == InitSQ /\ [][NextStatus]_vars

(***************************************************************************)
(* C25, as stated: progress() returns cursor * 100 / length(payload)       *)
(* (integer division, within 0..100), and returns 100 whenever the payload *)
(* is empty, including when the queue is Idle.                             *)
(***************************************************************************)
C25_HundredWheneverEmpty ==
    lastOp = "status" =>
        /\ lastResult.progress \in 0 .. 100
        /\ getLength(sendQueue) = 0 => lastResult.progress = 100
        /\ getLength(sendQueue) > 0 =>
              lastResult.progress = (sendQueue.position * 100) \div getLength(sendQueue)

(***************************************************************************)
(* C25, amended: progress() returns 0 whenever the queue is Idle (its      *)
(* payload is then empty); while the queue is Sending the payload is never *)
(* empty and progress() returns cursor * 100 / length(payload), integer    *)
(* division, within 0..100.                                                *)
(***************************************************************************)
C25_ZeroWhenIdleElseRatio ==
    lastOp = "status" =>
        /\ lastResult.progress \in 0 .. 100
        /\ lastResult.busy = sendQueue.active
        /\ ~sendQueue.active =>
              /\ getLength(sendQueue) = 0
              /\ lastResult.progress = 0
        /\ sendQueue.active =>
              /\ getLength(sendQueue) > 0
              /\ lastResult.progress =
                    (sendQueue.position * 100) \div getLength(sendQueue)

\* Asked in the middle of a transmission: some chunks out, some to go.
C25_Witness ==
    /\ lastOp = "status"
    /\ sendQueue.active
    /\ sendQueue.position > 0
    /\ lastResult.progress > 0
    /\ lastResult.progress < 100

(***************************************************************************)
(* C26: reset() clears every client record unconditionally: right after it *)
(* trackedClientCount() is 0, and the next checkLimit, for any key, is     *)
(* treated as a first request (admitted, count 1), whatever count the key  *)
(* had before.                                                             *)
(***************************************************************************)
C26_ResetForgetsEveryClient ==
    [][ /\ lastOp' = "reset" =>
              /\ clients' = EmptyTable
              /\ Cardinality(DOMAIN clients') = 0
              /\ \A ip \in IPs :
                    /\ checkLimitBranch(clients', ipToUint32(ip)) = "new"
                    /\ checkLimitResult(clients', ipToUint32(ip))
        /\ (lastOp = "reset" /\ lastOp' = "checkLimit") =>
              /\ lastResult' = TRUE
              /\ RecordOf(clients', lastArg').requestCount = 1
              /\ Cardinality(DOMAIN clients') = 1
      ]_vars

\* reset() came when a client had used up its window: its next call would
\* have been denied, and is now a first request.
C26_Witness ==
    /\ lastOp = "reset"
    /\ lastArg >= maxRequests
    /\ getTrackedClientCount = 0
    /\ checkLimitResult(clients, ipToUint32(QuietIp))

(***************************************************************************)
(* Specification SpecAuth: one client sends POST /ctrlaltdel requests,     *)
(* with a right or a wrong API key, while the clock runs.  The BLE host is *)
(* not connected, so an admitted request ends in sendCtrlAltDel's first    *)
(* test.  shadow is a limiter that is asked about every request, whatever  *)
(* its key.                                                                *)
(***************************************************************************)
AuthHorizon == 2 * MaxWindow + 2

\* Authenticator::authenticate: the header is there and equals the key.
authenticate(request) == request.hasKey /\ request.keyMatches

\* The requests a client can send: no key, a wrong key, the right key.
Requests ==
    {[ip |-> QuietIp, hasKey |-> FALSE, keyMatches |-> FALSE],
     [ip |-> QuietIp, hasKey |-> TRUE, keyMatches |-> FALSE],
     [ip |-> QuietIp, hasKey |-> TRUE, keyMatches |-> TRUE]}

\* sendCtrlAltDel that refuses while a text transmission is in flight, as
\* queueText does.
sendCtrlAltDelBusy ==
    IF ~connected THEN "BLE_NOT_CONNECTED"
    ELSE IF sendQueue.active THEN "BUSY"
    ELSE "SUCCESS"

\* BLEKeyboardManager::sendCtrlAltDel, the ErrorCode it returns.
sendCtrlAltDel == IF ~connected THEN "BLE_NOT_CONNECTED" ELSE "SUCCESS"

\* WebServerManager::handleCtrlAlt
handleCtrlAlt(request) ==
    LET key == ipToUint32(request.ip)
    IN  /\ ~connected
        /\ lastOp' = "handleCtrlAlt"
        /\ lastArg' = request
        /\ IF ~authenticate(request)
           THEN /\ lastResult' = "UNAUTHORIZED"
                /\ shadow' = checkLimitTable(shadow, key)
                /\ shadowResult' = checkLimitResult(shadow, key)
                /\ UNCHANGED <<millis, timeVars, rlVars, uptime, startAt, fresh,
                               admitLog, everLog, sweptAt, sqVars, sqGhost,
                   boardVars, valVars, iterVars>>
           ELSE /\ checkLimitEffect(request.ip)
                /\ lastResult' = IF ~checkLimitResult(clients, key)
                                 THEN "RATE_LIMIT_EXCEEDED"
                                 ELSE sendCtrlAltDel

NextAuth ==
    \/ Tick(AuthHorizon)
    \/ \E request \in Requests : handleCtrlAlt(request)

SpecAuth == InitRL /\ [][NextAuth]_vars

(***************************************************************************)
(* C27: rapid requests with a wrong API key are rate limited: once         *)
(* maxRequests requests of one IP have arrived in a window, a further      *)
(* request of that IP in the window is answered by the rate limiter's      *)
(* rejection, also when its API key is invalid.                            *)
(***************************************************************************)
C27_WrongKeysAreRateLimited ==
    (lastOp = "handleCtrlAlt" /\ shadowResult = FALSE) =>
        lastResult = "RATE_LIMIT_EXCEEDED"

\* More than maxRequests wrong keys in one window, the last one answered
\* 401 and the limiter never asked.
C27_Witness ==
    /\ lastOp = "handleCtrlAlt"
    /\ ~authenticate(lastArg)
    /\ shadowResult = FALSE
    /\ lastResult = "UNAUTHORIZED"
    /\ getTrackedClientCount = 0

(***************************************************************************)
(* Specification SpecLoop: the board after setup(), with WiFi connected or *)
(* not; loop() runs at least once per tick, the radio loses and regains    *)
(* the network at any time.  No HTTP request arrives and no text is        *)
(* queued, so the send queue stays idle.                                   *)
(***************************************************************************)
LoopHorizon == DISCONNECT_ALERT_MS + STATUS_CHECK_INTERVAL_MS + 2 * FLASH_INTERVAL_MS + 3

InitLoop ==
    /\ millis = 1
    /\ tStart = 0
    /\ tInterval = 0
    /\ tElapsed = 0
    /\ windowMs = 1
    /\ maxRequests = 1
    /\ RLConstructed
    /\ SQConstructed
    /\ connected = FALSE
    /\ lastOp = None
    /\ lastArg = None
    /\ lastResult = None
    /\ led = LEDBegun
    /\ radio \in BOOLEAN
    /\ wifi = WifiBegun(radio, millis)
    /\ statics = [lastWiFiState |-> FALSE, lastCleanup |-> 0]
    /\ ledGhost = NoLedGhost
    /\ NoMessage
    /\ iter = NoIter

\* One iteration of loop(): wifiManager.update(), bleManager.update(),
\* ledManager.update(), webServer.handleClient() with its periodic
\* cleanup(), then the two tests on the WiFi state.
loop ==
    LET afterWifi == wifiUpdate(wifi, radio)
        afterUpdate == ledUpdate(led)
        sweepDue == hasElapsed(statics.lastCleanup, CleanupCadence)
        currentWiFiState == afterWifi.connected
        afterChange == IF statics.lastWiFiState # currentWiFiState /\ currentWiFiState
                       THEN setFlashing(afterUpdate, FALSE)
                       ELSE afterUpdate
        afterAlert == IF isDisconnectedLongTerm(afterWifi)
                      THEN setFlashing(afterChange, TRUE)
                      ELSE afterChange
    IN  /\ wifi' = afterWifi
        /\ sendQueue' = processSendQueue(sendQueue, connected, TRUE)
        /\ IF sweepDue THEN cleanupEffect ELSE UNCHANGED <<rlVars, rlGhost>>
        /\ statics' = [lastWiFiState |-> currentWiFiState,
                       lastCleanup |-> IF sweepDue THEN millis
                                       ELSE statics.lastCleanup]
        /\ led' = afterAlert
        /\ ledGhost' = [ledGhost EXCEPT
                            !.looped = TRUE,
                            !.offFor = IF wifi.connected THEN 0 ELSE @,
                            !.pinHeld = IF \/ afterAlert.pin # led.pin
                                           \/ (afterAlert.flashingEnabled
                                                 /\ ~led.flashingEnabled)
                                        THEN 0 ELSE @]
        /\ lastOp' = "loop"
        /\ lastArg' = None
        /\ lastResult' = None
        /\ UNCHANGED <<millis, timeVars, connected, sqGhost, radio, valVars, iterVars>>

\* A tick of the clock; loop() has run since the tick before.
TickLoop ==
    /\ uptime < LoopHorizon
    /\ ledGhost.looped
    /\ ClockStep
    /\ uptime' = uptime + 1
    /\ ledGhost' = [downFor |-> IF radio THEN 0 ELSE Bump(ledGhost.downFor),
                    pinHeld |-> Bump(ledGhost.pinHeld),
                    looped |-> FALSE,
                    offFor |-> IF wifi.connected THEN 0
                               ELSE Bump(ledGhost.offFor)]
    /\ lastOp' = "tick"
    /\ lastArg' = None
    /\ lastResult' = None
    /\ shadowResult' = None
    /\ UNCHANGED <<timeVars, rlVars, startAt, fresh, admitLog, everLog, shadow, sweptAt,
                   sqVars, sqGhost, led, wifi, radio, statics,
                   valVars, iterVars>>

\* The radio loses or regains the network.
RadioChange ==
    /\ radio' = ~radio
    /\ ledGhost' = [ledGhost EXCEPT !.downFor = 0]
    /\ lastOp' = "radio"
    /\ lastArg' = None
    /\ lastResult' = None
    /\ UNCHANGED <<millis, timeVars, rlVars, rlGhost, sqVars, sqGhost, led, wifi,
                   statics, valVars, iterVars>>

NextLoop == TickLoop \/ loop \/ RadioChange

SpecLoop == InitLoop /\ [][NextLoop]_vars

\* The radio has been down for longer than the alert time plus the time the
\* manager takes to notice, and loop() has run since.
DisconnectedLongTerm ==
    /\ ~radio
    /\ ledGhost.downFor >= DISCONNECT_ALERT_MS + STATUS_CHECK_INTERVAL_MS
    /\ ledGhost.looped

(***************************************************************************)
(* C28: once WiFi has been disconnected for longer than                    *)
(* DISCONNECT_ALERT_MS and stays so, the main loop makes the LED flash:    *)
(* flashing is enabled and the LED output changes level every              *)
(* FLASH_INTERVAL_MS for as long as the disconnection lasts.               *)
(***************************************************************************)
C28_FlashesWhileDisconnected ==
    DisconnectedLongTerm =>
        /\ led.flashingEnabled
        /\ ledGhost.pinHeld <= FLASH_INTERVAL_MS

\* Flashing was enabled two intervals ago and the pin has never changed.
C28_Witness ==
    /\ DisconnectedLongTerm
    /\ led.flashingEnabled
    /\ ledGhost.pinHeld >= 2 * FLASH_INTERVAL_MS
    /\ led.pin = LOW
    /\ led.lastFlashToggle = millis

(***************************************************************************)
(* Specification SpecLed: the LED manager after begin(); update(),         *)
(* toggle(), setManual() and setFlashing() are called in any order while   *)
(* the clock runs.                                                         *)
(***************************************************************************)
LedHorizon == 2 * FLASH_INTERVAL_MS + 2

InitLed ==
    /\ millis \in {0, Modulus - FLASH_INTERVAL_MS}
    /\ tStart = 0
    /\ tInterval = 0
    /\ tElapsed = 0
    /\ windowMs = 1
    /\ maxRequests = 1
    /\ RLConstructed
    /\ SQConstructed
    /\ connected = FALSE
    /\ lastOp = None
    /\ lastArg = None
    /\ lastResult = None
    /\ BoardConstructed
    /\ NoMessage
    /\ iter = NoIter

\* What a call on the LED manager leaves alone.
LedCallFrame ==
    UNCHANGED <<millis, timeVars, rlVars, rlGhost, sqVars, sqGhost, wifi, radio,
                statics, ledGhost, valVars, iterVars>>

TickLed ==
    /\ uptime < LedHorizon
    /\ ClockStep
    /\ uptime' = uptime + 1
    /\ lastOp' = "tick"
    /\ lastArg' = None
    /\ lastResult' = None
    /\ shadowResult' = None
    /\ UNCHANGED <<timeVars, rlVars, startAt, fresh, admitLog, everLog, shadow, sweptAt,
                   sqVars, sqGhost, boardVars, valVars, iterVars>>

\* ledManager.update()
LedUpdate ==
    /\ led' = ledUpdate(led)
    /\ lastOp' = "ledUpdate"
    /\ lastArg' = None
    /\ lastResult' = None
    /\ LedCallFrame

\* ledManager.toggle()
LedToggle ==
    /\ led' = toggle(led)
    /\ lastOp' = "toggle"
    /\ lastArg' = None
    /\ lastResult' = toggle(led).manualState
    /\ LedCallFrame

\* ledManager.setManual(state)
LedSetManual(state) ==
    /\ led' = setManual(led, state)
    /\ lastOp' = "setManual"
    /\ lastArg' = state
    /\ lastResult' = None
    /\ LedCallFrame

\* ledManager.setFlashing(enabled)
LedSetFlashing(enabled) ==
    /\ led' = setFlashing(led, enabled)
    /\ lastOp' = "setFlashing"
    /\ lastArg' = enabled
    /\ lastResult' = None
    /\ LedCallFrame

NextLed ==
    \/ TickLed
    \/ LedUpdate
    \/ LedToggle
    \/ \E state \in BOOLEAN : LedSetManual(state)
    \/ \E enabled \in BOOLEAN : LedSetFlashing(enabled)

SpecLed == InitLed /\ [][NextLed]_vars

(***************************************************************************)
(* C29: flashing has priority over manual control: while flashing is       *)
(* enabled, toggle() and setManual() change the stored manual state only   *)
(* and never the LED output; when flashing is disabled, and at every       *)
(* update() with flashing disabled, the LED output equals the stored       *)
(* manual state.                                                           *)
(***************************************************************************)
C29_FlashingOverridesManual ==
    [][ /\ (led.flashingEnabled /\ lastOp' \in {"toggle", "setManual"}) =>
              /\ led'.pin = led.pin
              /\ led'.flashingEnabled
              /\ led'.flashState = led.flashState
              /\ led'.lastFlashToggle = led.lastFlashToggle
              /\ lastOp' = "toggle" => led'.manualState = ~led.manualState
              /\ lastOp' = "setManual" => led'.manualState = lastArg'
        /\ (lastOp' = "setFlashing" /\ lastArg' = FALSE) =>
              /\ ~led'.flashingEnabled
              /\ led'.pin = led'.manualState
              /\ led'.manualState = led.manualState
        /\ (lastOp' = "ledUpdate" /\ ~led.flashingEnabled) =>
              /\ led'.pin = led'.manualState
              /\ led'.manualState = led.manualState
        /\ ~led'.flashingEnabled => led'.pin = led'.manualState
      ]_vars

\* toggle() during flashing: the manual state is on, the LED is in the dark
\* half of a flash.
C29_Witness ==
    /\ lastOp = "toggle"
    /\ led.flashingEnabled
    /\ led.manualState
    /\ lastResult = TRUE
    /\ led.pin = LOW
    /\ led.flashState = FALSE
    /\ led.lastFlashToggle # 0

(***************************************************************************)
(* Validation::validateMessage                                             *)
(***************************************************************************)
\* The bytes a message is built from: control characters, the three
\* allowed ones (tab, newline, carriage return), printable ASCII, DEL, and
\* bytes with the top bit set on either side of 159.
ByteSamples == {1, 8, 9, 10, 13, 31, 32, 65, 126, 127, 128, 159, 160, 255}

Letter == 65

\* Messages of every length up to one past the maximum, made of letters
\* with one sampled byte in the first or in the last place.
Messages ==
    {<<>>} \cup
    UNION {{[i \in 1 .. n |-> IF i = place THEN b ELSE Letter] :
                place \in {1, n}, b \in ByteSamples} :
           n \in 1 .. (MAX_MESSAGE_LENGTH + 1)}

\* char c = msg.charAt(i): the byte as a value of the build's plain char.
charAt(m, i, signed) == IF signed /\ m[i] >= 128 THEN m[i] - 256 ELSE m[i]

\* The two tests of the loop body on one character.
RejectedChar(c) ==
    \/ (c < 32 /\ c # 10 /\ c # 13 /\ c # 9)
    \/ (c = 127 \/ (c >= 128 /\ c <= 159))

ValidationResult(v, code) == [valid |-> v, errorCode |-> code]

validateMessage(m, signed) ==
    IF Len(m) = 0
    THEN ValidationResult(FALSE, "MESSAGE_EMPTY")
    ELSE IF Len(m) > MAX_MESSAGE_LENGTH
    THEN ValidationResult(FALSE, "MESSAGE_TOO_LONG")
    ELSE IF \E i \in 1 .. Len(m) : RejectedChar(charAt(m, i, signed))
    THEN ValidationResult(FALSE, "INVALID_CHARACTERS")
    ELSE ValidationResult(TRUE, "SUCCESS")

(***************************************************************************)
(* Specification SpecValidate: a message is chosen, in a build whose plain *)
(* char is unsigned (the ESP32 toolchain) or signed (the host the unit     *)
(* tests run on), and validateMessage is called on it.                     *)
(***************************************************************************)
InitValidate ==
    /\ millis = 0
    /\ tStart = 0
    /\ tInterval = 0
    /\ tElapsed = 0
    /\ windowMs = 1
    /\ maxRequests = 1
    /\ RLConstructed
    /\ SQConstructed
    /\ connected = FALSE
    /\ lastOp = None
    /\ lastArg = None
    /\ lastResult = None
    /\ BoardConstructed
    /\ msg \in Messages
    /\ charIsSigned \in BOOLEAN
    /\ iter = NoIter

CallValidateMessage ==
    /\ lastOp = None
    /\ lastOp' = "validateMessage"
    /\ lastArg' = msg
    /\ lastResult' = validateMessage(msg, charIsSigned)
    /\ UNCHANGED <<millis, timeVars, rlVars, rlGhost, sqVars, sqGhost, boardVars,
                   valVars, iterVars>>

NextValidate == CallValidateMessage

SpecValidate == InitValidate /\ [][NextValidate]_vars

\* A control character: C0 (below 32), DEL, or C1 (128 to 159).
IsControl(b) == b < 32 \/ b = 127 \/ (b >= 128 /\ b <= 159)

\* Newline, carriage return and tab.
AllowedControl == {10, 13, 9}

\* What the contract says validateMessage returns for a message.
ContractResult(m) ==
    IF Len(m) = 0 THEN "MESSAGE_EMPTY"
    ELSE IF Len(m) > MAX_MESSAGE_LENGTH THEN "MESSAGE_TOO_LONG"
    ELSE IF \E i \in 1 .. Len(m) : IsControl(m[i]) /\ m[i] \notin AllowedControl
    THEN "INVALID_CHARACTERS"
    ELSE "SUCCESS"

(***************************************************************************)
(* C30: validateMessage returns MESSAGE_EMPTY for the empty message,       *)
(* MESSAGE_TOO_LONG for a message longer than MAX_MESSAGE_LENGTH (one of   *)
(* exactly that length is accepted), INVALID_CHARACTERS for a message of   *)
(* valid length that holds a control character other than newline,         *)
(* carriage return or tab, and valid with SUCCESS otherwise; the tests are *)
(* made in that order.                                                     *)
(***************************************************************************)
C30_ValidateMessageContract ==
    lastOp = "validateMessage" =>
        /\ lastResult.errorCode = ContractResult(msg)
        /\ lastResult.valid = (ContractResult(msg) = "SUCCESS")

\* A message of letters and one byte above 159, which is no control
\* character, rejected in the build with a signed char.
C30_Witness ==
    /\ lastOp = "validateMessage"
    /\ charIsSigned
    /\ Len(msg) \in 1 .. MAX_MESSAGE_LENGTH
    /\ \A i \in 1 .. Len(msg) : ~IsControl(msg[i])
    /\ lastResult.errorCode = "INVALID_CHARACTERS"

(***************************************************************************)
(* Specification SpecSQLive: the send queue of SpecSQ with a clock that    *)
(* never stops.  loop() calls update() far more often than the clock       *)
(* ticks, so a tick is taken only after an update() call; the clock keeps  *)
(* advancing (strong fairness: other calls may come in between) and        *)
(* update() keeps being called (weak fairness).                            *)
(***************************************************************************)
TickLive ==
    /\ lastOp = "update"
    /\ ClockStep
    /\ sqAge' = Bump(sqAge)
    /\ lastOp' = "tick"
    /\ lastArg' = None
    /\ lastResult' = None
    /\ UNCHANGED <<timeVars, rlVars, rlGhost, sqVars, tx, boardVars, valVars, iterVars>>

CallUpdate == \E printOk \in BOOLEAN : update(printOk)

NextSQLive ==
    \/ TickLive
    \/ \E chars \in StatusTexts : queueText([null |-> FALSE, chars |-> chars])
    \/ CallUpdate
    \/ \E up \in BOOLEAN : BleLink(up)

SpecSQLive ==
    /\ InitSQ
    /\ [][NextSQLive]_vars
    /\ SF_vars(TickLive)
    /\ WF_vars(CallUpdate)

(***************************************************************************)
(* C31: an accepted payload does not stay in the queue for ever: with the  *)
(* clock advancing and update() being called, the queue returns to Idle    *)
(* when the channel stays ready and every transmit succeeds, and it        *)
(* returns to Idle as well when the channel becomes and stays not ready.   *)
(* Checked for every behaviour of the channel: a Sending queue always      *)
(* leads to an Idle one.                                                   *)
(***************************************************************************)
C31_SendingLeadsToIdle == sendQueue.active ~> ~sendQueue.active

\* Back to Idle after the longest payload went out in several chunks.
C31_Witness ==
    /\ ~sendQueue.active
    /\ tx.fate = "completed"
    /\ Len(tx.payload) = MAX_MESSAGE_LENGTH
    /\ tx.sent = tx.payload
    /\ tx.chunks = CeilDiv(MAX_MESSAGE_LENGTH, TEXT_CHUNK_SIZE)

(***************************************************************************)
(* C32: each update() call transmits at most one chunk of at most          *)
(* TEXT_CHUNK_SIZE characters and returns: the cursor advances by at most  *)
(* TEXT_CHUNK_SIZE per call, however long ago the last chunk went out.     *)
(***************************************************************************)
C32_OneChunkPerUpdate ==
    [][ lastOp' = "update" =>
          /\ tx'.chunks - tx.chunks <= 1
          /\ Len(tx'.sent) - Len(tx.sent) <= TEXT_CHUNK_SIZE
          /\ sendQueue'.position - sendQueue.position <= TEXT_CHUNK_SIZE
          /\ lastResult' \in {"sent", "done"} =>
                /\ tx'.chunks = tx.chunks + 1
                /\ tx'.endPosition - sendQueue.position \in 1 .. TEXT_CHUNK_SIZE
          /\ lastResult' \notin {"sent", "done"} =>
                /\ tx'.sent = tx.sent
                /\ tx'.chunks = tx.chunks
      ]_vars

\* update() came three chunk delays late and a long payload had two more
\* chunks to go: still one chunk only.
C32_Witness ==
    /\ lastOp = "update"
    /\ lastResult = "sent"
    /\ lastArg >= 3 * CHUNK_DELAY_MS
    /\ tx.chunks = 1
    /\ Len(tx.sent) = TEXT_CHUNK_SIZE
    /\ Len(tx.payload) > 2 * TEXT_CHUNK_SIZE
    /\ sendQueue.position = TEXT_CHUNK_SIZE


\* ------------------------------------------------------------------
\* C33: admissions of one key in any closed interval of windowMs
\* ------------------------------------------------------------------

BurstHorizon == 3 * MaxWindow

\* The limiter as constructed, with the admissions of every IP watched
\* across reset().
InitBurst ==
    /\ millis = 0
    /\ tStart = 0
    /\ tInterval = 0
    /\ tElapsed = 0
    /\ windowMs \in 1 .. MaxWindow
    /\ maxRequests \in 1 .. MaxRequests
    /\ clients = EmptyTable
    /\ lastCleanup = millis
    /\ uptime = 0
    /\ startAt = [ip \in IPs |-> NoWindow]
    /\ fresh = [ip \in IPs |-> Stale]
    /\ admitLog = [ip \in IPs |-> <<>>]
    /\ everLog = [ip \in IPs |-> <<>>]
    /\ shadow = EmptyTable
    /\ shadowResult = None
    /\ sweptAt = 0
    /\ SQConstructed
    /\ connected = FALSE
    /\ lastOp = None
    /\ lastArg = None
    /\ lastResult = None
    /\ BoardConstructed
    /\ NoMessage
    /\ iter = NoIter

NextBurst ==
    \/ Tick(BurstHorizon)
    \/ checkLimit(QuietIp)
    \/ cleanup
    \/ reset

SpecBurst == InitBurst /\ [][NextBurst]_vars

\* The admitted calls of ip, resets of the limiter notwithstanding, whose age
\* is at most span.
EverAdmitsWithin(ip, span) ==
    Cardinality({i \in 1 .. Len(everLog[ip]) : uptime - everLog[ip][i] <= span})

\* The admissions of ip counted by AdmitsWithin lie on both sides of the
\* start of its current window.
SpansWindowBoundary(ip) ==
    /\ \E i \in 1 .. Len(admitLog[ip]) : admitLog[ip][i] < startAt[ip]
    /\ \E i \in 1 .. Len(admitLog[ip]) : admitLog[ip][i] >= startAt[ip]

C34_ActiveWindowStartFixed ==
    [][\A ip \in IPs :
          (/\ lastOp' = "checkLimit"
           /\ lastArg' = ip
           /\ Tracked(clients, ip)
           /\ WindowAge(ip) < windowMs)
          => /\ Tracked(clients', ip)
             /\ RecordOf(clients', ip).lastRequestTime
                    = RecordOf(clients, ip).lastRequestTime
             /\ startAt'[ip] = startAt[ip]
             /\ RecordOf(clients', ip).requestCount
                    = IF lastResult'
                      THEN RecordOf(clients, ip).requestCount + 1
                      ELSE RecordOf(clients, ip).requestCount]_vars

\* A call admitted late in an active window, after the clock wrapped: the
\* count went up and the window still starts where it started.
C34_Witness ==
    /\ lastOp = "checkLimit"
    /\ lastResult = TRUE
    /\ Tracked(clients, QuietIp)
    /\ RecordOf(clients, QuietIp).requestCount >= 2
    /\ WindowAge(QuietIp) = windowMs - 1
    /\ WindowAge(QuietIp) >= 1
    /\ RecordOf(clients, QuietIp).lastRequestTime # millis
    /\ uptime > Modulus


(***************************************************************************)
(* Specification SpecIdle: the limiter with cleanup() called again at      *)
(* every clock value, as handleClient() does from loop(), and requests     *)
(* arriving at any time.  The clock runs forever, so the bookkeeping of    *)
(* true time is not kept: uptime stays put and every tick empties the      *)
(* admission log.  Results are recorded as words.                          *)
(***************************************************************************)
TickIdle ==
    /\ lastOp = "cleanup"
    /\ ClockStep
    /\ admitLog' = [ip \in IPs |-> <<>>]
    /\ lastOp' = "tick"
    /\ lastArg' = None
    /\ lastResult' = None
    /\ UNCHANGED <<timeVars, rlVars, uptime, startAt, fresh, everLog, shadow,
                   shadowResult, sweptAt, sqVars, sqGhost, boardVars, valVars, iterVars>>

\* A request of the client; the result is recorded as a word.
IdleCheckLimit ==
    /\ lastOp' = "checkLimit"
    /\ checkLimitEffect(QuietIp)
    /\ lastArg' = QuietIp
    /\ lastResult' = IF checkLimitResult(clients, ipToUint32(QuietIp))
                      THEN "admit" ELSE "deny"

\* handleClient() calls cleanup(); the result is recorded as a word.
IdleCleanup ==
    /\ lastOp' = "cleanup"
    /\ cleanupEffect
    /\ lastArg' = DOMAIN clients \ DOMAIN clients'
    /\ lastResult' = IF cleanupThrottled THEN "throttled" ELSE "swept"
    /\ UNCHANGED <<millis, timeVars, sqVars, sqGhost, boardVars, valVars, iterVars>>

NextIdle ==
    \/ TickIdle
    \/ IdleCheckLimit
    \/ IdleCleanup

\* The limiter built with a limit of one request per window.
InitIdle ==
    /\ millis = 0
    /\ tStart = 0
    /\ tInterval = 0
    /\ tElapsed = 0
    /\ windowMs \in 1 .. MaxWindow
    /\ maxRequests = 1
    /\ RLConstructed
    /\ SQConstructed
    /\ connected = FALSE
    /\ lastOp = None
    /\ lastArg = None
    /\ lastResult = None
    /\ BoardConstructed
    /\ NoMessage
    /\ iter = NoIter

SpecIdle ==
    InitIdle /\ [][NextIdle]_vars /\ SF_vars(TickIdle) /\ WF_vars(IdleCleanup)

\* ------------------------------------------------------------------
\* C35: records of clients that stopped sending are eventually removed
\* ------------------------------------------------------------------

OrderHorizon == 12

OrderTexts == {TextOf(length, 0) : length \in {1, TEXT_CHUNK_SIZE + 1}}

RLKinds == {"checkLimit", "cleanup"}

SQKinds == {"update", "queueText"}

QueueOps ==
    {[op |-> "update", printOk |-> ok, chars |-> <<>>] : ok \in BOOLEAN}
        \cup {[op |-> "queueText", printOk |-> TRUE, chars |-> t] : t \in OrderTexts}

\* Where the iteration of the current clock value stands: "start" before its
\* first operation, "middle" between the two, "end" after both, "idle"
\* before it began.
IterStage ==
    IF iter.first = "none" THEN "idle"
    ELSE IF lastOp = "begin" THEN "start"
    ELSE IF lastOp \in RLKinds THEN (IF iter.first = "rl" THEN "middle" ELSE "end")
    ELSE IF lastOp \in SQKinds THEN (IF iter.first = "sq" THEN "middle" ELSE "end")
    ELSE "idle"

InitOrder ==
    /\ millis = 0
    /\ tStart = 0
    /\ tInterval = 0
    /\ tElapsed = 0
    /\ windowMs \in 1 .. MaxWindow
    /\ maxRequests = MaxRequests
    /\ RLConstructed
    /\ SQConstructed
    /\ connected \in BOOLEAN
    /\ lastOp = None
    /\ lastArg = None
    /\ lastResult = None
    /\ BoardConstructed
    /\ NoMessage
    /\ iter = NoIter

TickOrder ==
    /\ IterStage \in {"idle", "end"}
    /\ uptime < OrderHorizon
    /\ ClockStep
    /\ uptime' = uptime + 1
    /\ sqAge' = Bump(sqAge)
    /\ fresh' = [ip \in IPs |->
                    IF fresh[ip].at # NoWindow /\ uptime' - fresh[ip].at >= windowMs
                    THEN Stale ELSE fresh[ip]]
    /\ admitLog' = [ip \in IPs |-> KeepRecent(admitLog[ip], uptime', windowMs)]
    /\ lastOp' = "tick"
    /\ lastArg' = None
    /\ lastResult' = None
    /\ shadowResult' = None
    /\ iter' = NoIter
    /\ UNCHANGED <<timeVars, rlVars, startAt, everLog, shadow, sweptAt, sqVars, tx,
                   boardVars, valVars>>

\* An iteration begins: the state is noted and the operations are chosen.
BeginIteration(first, rl, sq) ==
    /\ IterStage = "idle"
    /\ iter' = [first |-> first, rl |-> rl, sq |-> sq,
                clients |-> clients, lastCleanup |-> lastCleanup,
                sendQueue |-> sendQueue, connected |-> connected]
    /\ lastOp' = "begin"
    /\ lastArg' = None
    /\ lastResult' = None
    /\ UNCHANGED <<millis, timeVars, rlVars, rlGhost, sqVars, sqGhost, boardVars,
                   valVars>>

\* The rate limiter's operation of the iteration.
OrderRL ==
    /\ \/ IterStage = "start" /\ iter.first = "rl"
       \/ IterStage = "middle" /\ iter.first = "sq"
    /\ IF iter.rl = "checkLimit" THEN checkLimit(QuietIp) ELSE cleanup

\* The send queue's operation of the iteration.
OrderSQ ==
    /\ \/ IterStage = "start" /\ iter.first = "sq"
       \/ IterStage = "middle" /\ iter.first = "rl"
    /\ IF iter.sq.op = "update" THEN update(iter.sq.printOk)
       ELSE queueText([null |-> FALSE, chars |-> iter.sq.chars])

NextOrder ==
    \/ TickOrder
    \/ \E first \in {"rl", "sq"}, rl \in RLKinds, sq \in QueueOps :
           BeginIteration(first, rl, sq)
    \/ OrderRL
    \/ OrderSQ

SpecOrder == InitOrder /\ [][NextOrder]_vars

\* ------------------------------------------------------------------
\* C36: the rate limiter and the send queue are independent
\* ------------------------------------------------------------------

\* What the iteration's limiter operation returns and leaves behind when it
\* is applied to the state the iteration began in.
FromStartRL ==
    LET key == ipToUint32(QuietIp)
        throttled == ~hasElapsed(iter.lastCleanup, TenWindows)
    IN  IF iter.rl = "checkLimit"
        THEN [result |-> checkLimitResult(iter.clients, key),
              clients |-> checkLimitTable(iter.clients, key),
              lastCleanup |-> iter.lastCleanup]
        ELSE [result |-> ~throttled,
              clients |-> IF throttled THEN iter.clients
                          ELSE cleanupTable(iter.clients),
              lastCleanup |-> IF throttled THEN iter.lastCleanup ELSE millis]

\* The same for the iteration's send queue operation.
FromStartSQ ==
    IF iter.sq.op = "update"
    THEN [result |-> processBranch(iter.sendQueue, iter.connected, iter.sq.printOk),
          sendQueue |-> processSendQueue(iter.sendQueue, iter.connected,
                                         iter.sq.printOk)]
    ELSE LET text == [null |-> FALSE, chars |-> iter.sq.chars]
             result == queueTextResult(iter.sendQueue, iter.connected, text)
         IN  [result |-> result,
              sendQueue |-> IF result = "SUCCESS" THEN SendQueueStart(iter.sq.chars)
                            ELSE iter.sendQueue]

\* C36: within one loop iteration, at one clock value, the limiter's
\* operation (checkLimit or cleanup) and the send queue's operation (update
\* or queueText) give the same results and leave the same states whichever
\* of them runs first: each returns and leaves what it would when applied
\* to the state the iteration began in, and leaves the other's state alone.
C36_OrderDoesNotMatter ==
    /\ (IterStage \in {"middle", "end"} /\ lastOp \in RLKinds)
           => lastResult = FromStartRL.result
    /\ (IterStage \in {"middle", "end"} /\ lastOp \in SQKinds)
           => lastResult = FromStartSQ.result
    /\ (IterStage = "middle" /\ iter.first = "rl")
           => sendQueue = iter.sendQueue /\ connected = iter.connected
    /\ (IterStage = "middle" /\ iter.first = "sq")
           => clients = iter.clients /\ lastCleanup = iter.lastCleanup
    /\ IterStage = "end"
           => /\ clients = FromStartRL.clients
              /\ lastCleanup = FromStartRL.lastCleanup
              /\ sendQueue = FromStartSQ.sendQueue
              /\ connected = iter.connected

\* An iteration in which queueText started a transmission and then
\* checkLimit counted a further request of a tracked client: both states
\* changed, the queue's operation first.
C36_Witness ==
    /\ IterStage = "end"
    /\ iter.first = "sq"
    /\ lastOp = "checkLimit"
    /\ lastResult = TRUE
    /\ iter.sq.op = "queueText"
    /\ sendQueue.active
    /\ ~iter.sendQueue.active
    /\ Tracked(iter.clients, QuietIp)
    /\ clients # iter.clients
    /\ RecordOf(clients, QuietIp).lastRequestTime
           = RecordOf(iter.clients, QuietIp).lastRequestTime

\* The other order, with a sweep of cleanup() that removed the record and
\* then update() sending a chunk.
C36_WitnessSweepFirst ==
    /\ IterStage = "end"
    /\ iter.first = "rl"
    /\ iter.rl = "cleanup"
    /\ clients # iter.clients
    /\ lastOp = "update"
    /\ lastResult = "sent"


(***************************************************************************)
(* Specification SpecWifi: WiFiManager after begin(), with update() and    *)
(* disconnect() called at any time, the radio link going up and down, and  *)
(* the clock running through its wrap.                                     *)
(***************************************************************************)
WifiHorizon == 2 * DISCONNECT_ALERT_MS + 3

\* WiFiManager::disconnect
disconnect(w) == [w EXCEPT !.connected = FALSE]

\* True ticks since the manager's connected flag went false.
OffFor == IF wifi.connected THEN 0 ELSE ledGhost.offFor

InitWifi ==
    /\ millis \in {1, Modulus - DISCONNECT_ALERT_MS}
    /\ tStart = 0
    /\ tInterval = 0
    /\ tElapsed = 0
    /\ windowMs = 1
    /\ maxRequests = 1
    /\ RLConstructed
    /\ SQConstructed
    /\ connected = FALSE
    /\ lastOp = None
    /\ lastArg = None
    /\ lastResult = None
    /\ led = LEDBegun
    /\ radio \in BOOLEAN
    /\ wifi = WifiBegun(radio, millis)
    /\ statics = [lastWiFiState |-> FALSE, lastCleanup |-> 0]
    /\ ledGhost = NoLedGhost
    /\ NoMessage
    /\ iter = NoIter

TickWifi ==
    /\ uptime < WifiHorizon
    /\ ClockStep
    /\ uptime' = uptime + 1
    /\ ledGhost' = [ledGhost EXCEPT
                        !.downFor = IF radio THEN 0 ELSE Bump(@),
                        !.offFor = IF wifi.connected THEN 0 ELSE Bump(@)]
    /\ lastOp' = "tick"
    /\ lastArg' = None
    /\ lastResult' = isDisconnectedLongTerm(wifi)
    /\ shadowResult' = None
    /\ UNCHANGED <<timeVars, rlVars, startAt, fresh, admitLog, everLog, shadow, sweptAt,
                   sqVars, sqGhost, led, wifi, radio, statics, valVars, iterVars>>

\* WiFiManager::update, and what isDisconnectedLongTerm() returns after it.
WifiUpdate ==
    /\ wifi' = wifiUpdate(wifi, radio)
    /\ ledGhost' = [ledGhost EXCEPT !.offFor = IF wifi.connected THEN 0 ELSE @]
    /\ lastOp' = "wifiUpdate"
    /\ lastArg' = None
    /\ lastResult' = isDisconnectedLongTerm(wifi')
    /\ UNCHANGED <<millis, timeVars, rlVars, rlGhost, sqVars, sqGhost, led, radio,
                   statics, valVars, iterVars>>

\* WiFiManager::disconnect: WiFi.disconnect() takes the link down.
WifiDisconnect ==
    /\ wifi' = disconnect(wifi)
    /\ radio' = FALSE
    /\ ledGhost' = [ledGhost EXCEPT
                        !.offFor = IF wifi.connected THEN 0 ELSE @,
                        !.downFor = IF radio THEN 0 ELSE @]
    /\ lastOp' = "disconnect"
    /\ lastArg' = None
    /\ lastResult' = isDisconnectedLongTerm(wifi')
    /\ UNCHANGED <<millis, timeVars, rlVars, rlGhost, sqVars, sqGhost, led,
                   statics, valVars, iterVars>>

NextWifi ==
    \/ TickWifi
    \/ WifiUpdate
    \/ WifiDisconnect
    \/ RadioChange

SpecWifi == InitWifi /\ [][NextWifi]_vars

\* ------------------------------------------------------------------
\* C37: isDisconnectedLongTerm() and the time spent disconnected
\* ------------------------------------------------------------------

\* C37: after any sequence of update(), disconnect() and link changes
\* following begin(), isDisconnectedLongTerm() returns true exactly when the
\* manager is not connected and has been so for at least
\* DISCONNECT_ALERT_MS, also when the disconnect was recorded with the
\* clock reading 0.
C37_AlertExactlyWhenLongDisconnected ==
    isDisconnectedLongTerm(wifi)
        = (~wifi.connected /\ OffFor >= DISCONNECT_ALERT_MS)

\* The case in which the claim holds: the link dropped, update() recorded
\* it at a clock value other than 0, and the alert time has since passed.
C37_Witness ==
    /\ ~wifi.connected
    /\ wifi.hasBeenConnected
    /\ wifi.disconnectTime # 0
    /\ OffFor >= DISCONNECT_ALERT_MS
    /\ isDisconnectedLongTerm(wifi)

\* disconnect() was called on a connected manager and the alert time has
\* passed, yet isDisconnectedLongTerm() is false.
C37_SilentAfterDisconnect ==
    /\ ~wifi.connected
    /\ wifi.hasBeenConnected
    /\ wifi.disconnectTime = 0
    /\ millis # DISCONNECT_ALERT_MS
    /\ OffFor >= DISCONNECT_ALERT_MS
    /\ ~isDisconnectedLongTerm(wifi)


\* ------------------------------------------------------------------
\* C38: the send queue while it is Sending
\* ------------------------------------------------------------------

\* C38: in every state in which the send queue is active, the payload is
\* not empty, the cursor is below the payload's length and is a multiple of
\* TEXT_CHUNK_SIZE, and getSendProgress() is below 100.
C38_SendingCursorInsidePayload ==
    sendQueue.active
        => /\ getLength(sendQueue) > 0
           /\ sendQueue.position < getLength(sendQueue)
           /\ sendQueue.position % TEXT_CHUNK_SIZE = 0
           /\ getSendProgress(sendQueue) < 100

\* The longest text with two chunks sent and the last one to go: the queue
\* is still active and reports the share sent so far.
C38_Witness ==
    /\ lastOp = "update"
    /\ lastResult = "sent"
    /\ sendQueue.active
    /\ getLength(sendQueue) = MAX_MESSAGE_LENGTH
    /\ sendQueue.position = 2 * TEXT_CHUNK_SIZE
    /\ getLength(sendQueue) - sendQueue.position < TEXT_CHUNK_SIZE
    /\ getSendProgress(sendQueue) >= 50


(***************************************************************************)
(* Specification SpecPoll: loop() polls handleClient() at every clock      *)
(* value; requests of one client arrive at any time.  The window is one    *)
(* tick and handleClient() attempts cleanup() every SweepCadence ticks,    *)
(* which is more than ten windows, as 60000 ms is more than ten times      *)
(* Config::RateLimit::WINDOW_MS.                                           *)
(***************************************************************************)
SweepCadence == 12

PollHorizon == Modulus + 2 * SweepCadence

InitPoll ==
    /\ millis = 0
    /\ tStart = 0
    /\ tInterval = 0
    /\ tElapsed = 0
    /\ windowMs = 1
    /\ maxRequests = 1
    /\ RLConstructed
    /\ SQConstructed
    /\ connected = FALSE
    /\ lastOp = None
    /\ lastArg = None
    /\ lastResult = None
    /\ BoardConstructed
    /\ NoMessage
    /\ iter = NoIter

\* WebServerManager::handleClient, the periodic cleanup of the limiter.
handleClient ==
    LET due == hasElapsed(statics.lastCleanup, SweepCadence)
    IN  /\ IF due THEN cleanupEffect ELSE UNCHANGED <<rlVars, rlGhost>>
        /\ statics' = [statics EXCEPT !.lastCleanup = IF due THEN millis ELSE @]
        /\ ledGhost' = [ledGhost EXCEPT !.looped = TRUE]
        /\ lastOp' = "handleClient"
        /\ lastArg' = DOMAIN clients \ DOMAIN clients'
        /\ lastResult' = IF ~due THEN "skipped"
                         ELSE IF cleanupThrottled THEN "throttled"
                         ELSE "swept"
        /\ UNCHANGED <<millis, timeVars, sqVars, sqGhost, led, wifi, radio, valVars,
                       iterVars>>

\* A tick of the clock; handleClient() has run since the tick before.
TickPoll ==
    /\ uptime < PollHorizon
    /\ ledGhost.looped
    /\ ClockStep
    /\ uptime' = uptime + 1
    /\ fresh' = [ip \in IPs |->
                    IF fresh[ip].at # NoWindow /\ uptime' - fresh[ip].at >= windowMs
                    THEN Stale ELSE fresh[ip]]
    /\ admitLog' = [ip \in IPs |-> KeepRecent(admitLog[ip], uptime', windowMs)]
    /\ ledGhost' = [ledGhost EXCEPT !.looped = FALSE]
    /\ lastOp' = "tick"
    /\ lastArg' = None
    /\ lastResult' = None
    /\ shadowResult' = None
    /\ UNCHANGED <<timeVars, rlVars, startAt, everLog, shadow, sweptAt, sqVars, sqGhost,
                   led, wifi, radio, statics, valVars, iterVars>>

NextPoll ==
    \/ TickPoll
    \/ handleClient
    \/ checkLimit(QuietIp)

SpecPoll == InitPoll /\ [][NextPoll]_vars

\* ------------------------------------------------------------------
\* C39: with handleClient() polled, no record grows old
\* ------------------------------------------------------------------

\* The greatest age a record reaches: ten windows at one sweep and a
\* further cadence until the next.
MaxRecordAge == TenWindows + SweepCadence

C39_OldestRecord ==
    /\ Tracked(clients, QuietIp)
    /\ WindowAge(QuietIp) = MaxRecordAge

KEY_PRESS_DURATION_MS == CHUNK_DELAY_MS

SLEEP_COMBO_DELAY_MS == 5 * CHUNK_DELAY_MS

ComboHorizon == Modulus + 2 * CHUNK_DELAY_MS

\* BLEKeyboardManager::sendSleepCombo, the ErrorCode it returns.
sendSleepCombo == IF ~connected THEN "BLE_NOT_CONNECTED" ELSE "SUCCESS"

\* delay(ms): the caller is blocked while the clock runs on.
delay(ms) ==
    /\ uptime + ms <= ComboHorizon
    /\ millis' = (millis + ms) % Modulus
    /\ uptime' = uptime + ms
    /\ sqAge' = Min(sqAge + ms, AgeCap)

\* A call of sendCtrlAltDel(): three keys pressed, delay(), releaseAll().
\* lastArg keeps the queue as the call found it.
callSendCtrlAltDel ==
    /\ lastOp' = "sendCtrlAltDel"
    /\ lastArg' = sendQueue
    /\ lastResult' = sendCtrlAltDel
    /\ IF sendCtrlAltDel = "SUCCESS"
       THEN delay(KEY_PRESS_DURATION_MS)
       ELSE UNCHANGED <<millis, uptime, sqAge>>
    /\ UNCHANGED <<timeVars, rlVars, startAt, fresh, admitLog, everLog, shadow,
                   shadowResult, sweptAt, sqVars, tx, boardVars, valVars, iterVars>>

\* A call of sendSleepCombo(): Win+X, delay(), U, delay(), S.
callSendSleepCombo ==
    /\ lastOp' = "sendSleepCombo"
    /\ lastArg' = sendQueue
    /\ lastResult' = sendSleepCombo
    /\ IF sendSleepCombo = "SUCCESS"
       THEN delay(2 * SLEEP_COMBO_DELAY_MS)
       ELSE UNCHANGED <<millis, uptime, sqAge>>
    /\ UNCHANGED <<timeVars, rlVars, startAt, fresh, admitLog, everLog, shadow,
                   shadowResult, sweptAt, sqVars, tx, boardVars, valVars, iterVars>>

TickCombo ==
    /\ uptime < ComboHorizon
    /\ ClockStep
    /\ uptime' = uptime + 1
    /\ sqAge' = Bump(sqAge)
    /\ lastOp' = "tick"
    /\ lastArg' = None
    /\ lastResult' = None
    /\ UNCHANGED <<timeVars, rlVars, startAt, fresh, admitLog, everLog, shadow,
                   shadowResult, sweptAt, sqVars, tx, boardVars, valVars, iterVars>>

NextCombo ==
    \/ TickCombo
    \/ \E chars \in StatusTexts : queueText([null |-> FALSE, chars |-> chars])
    \/ CallUpdate
    \/ \E up \in BOOLEAN : BleLink(up)
    \/ callSendCtrlAltDel
    \/ callSendSleepCombo

SpecCombo == InitSQ /\ [][NextCombo]_vars

KeyCombos == {"sendCtrlAltDel", "sendSleepCombo"}

(***************************************************************************)
(* C40: sendCtrlAltDel() and sendSleepCombo() are accepted while a text    *)
(* transmission is in flight: they never return BUSY, and return SUCCESS   *)
(* whenever the keyboard is connected.  They leave the send queue's        *)
(* payload, cursor, lastSendTime and active flag as they were, so the      *)
(* transmission goes on from the same cursor: what has been sent of a      *)
(* payload in flight is always the payload up to the cursor, the update()  *)
(* call that follows a key combination and sends a chunk sends the chunk   *)
(* at the cursor the combination found, and after an accepted combination  *)
(* (which blocks for at least the chunk delay) the pacing interval has     *)
(* passed, so that call is the next one.                                   *)
(***************************************************************************)
C40_KeyCombosLeaveTransmissionAlone ==
    [][/\ lastOp' \in KeyCombos =>
            /\ lastResult' # "BUSY"
            /\ lastResult' = IF connected THEN "SUCCESS" ELSE "BLE_NOT_CONNECTED"
            /\ sendQueue' = sendQueue
            /\ (lastResult' = "SUCCESS" /\ sendQueue.active /\ sqAge' < Modulus)
                    => PacingElapsed(sendQueue)'
       /\ sendQueue'.active =>
            /\ sendQueue'.buffer = tx'.payload
            /\ tx'.sent = SubSeq(tx'.payload, 1, sendQueue'.position)
       /\ (/\ lastOp \in KeyCombos
           /\ lastOp' = "update"
           /\ lastResult' \in {"sent", "done"})
            => /\ lastArg.active
               /\ tx'.sent = tx.sent \o chunkOf(lastArg)
               /\ tx'.endPosition = lastArg.position + chunkLen(lastArg)]_vars

\* The sleep combination was accepted between the first and the second
\* chunk of a payload, and the queue is as it was.
C40_Witness ==
    /\ lastOp = "sendSleepCombo"
    /\ lastResult = "SUCCESS"
    /\ lastArg = sendQueue
    /\ sendQueue.active
    /\ sendQueue.position = TEXT_CHUNK_SIZE
    /\ tx.chunks = 1
    /\ PacingElapsed(sendQueue)

====
